---- MODULE Spec2Model ----
(***************************************************************************)
(* State-machine model of toda (chaos-mesh/toda): the supervisor's setup   *)
(* and teardown handshakes (main.rs, mount_injector.rs, stop.rs), the      *)
(* reference-counted ptrace registry and the remote calls made inside a    *)
(* stopped tracee (ptrace/mod.rs), the inode and handle tables of the      *)
(* passthrough filesystem and its injector pipeline (hookfs/mod.rs,        *)
(* injector/), the replacers (replacer/), the mount swap of                *)
(* mount_injector.rs and mount.rs, the control surface (todarpc.rs,        *)
(* cmd/interactive/handler.rs), the dispatcher (hookfs/async_fs.rs) and    *)
(* the handshake of stop.rs.                                               *)
(*                                                                         *)
(* The specifications share the module and its initial state:              *)
(*   SpecLife   - inject() / resume() and the subprocesses they spawn      *)
(*   SpecPtrace - PtraceManager::trace / detach on one thread              *)
(*   SpecFs     - HookFs request handlers over the inode table             *)
(*   SpecFh     - HookFs request handlers over the two handle tables       *)
(*   SpecInj    - a request through the injector list, with update()       *)
(*   SpecServe  - requests in flight while inject() / resume() run         *)
(*   SpecTracee - TracedThread::syscall, with_mmap, chdir, run_codes       *)
(*   SpecFd     - FdReplacer::prepare and ProcessAccessor::run             *)
(*   SpecRepl   - UnionReplacer::prepare / run over all processes          *)
(*   SpecSwap   - MountInjector::mount and recover_mount; SpecSwapLive     *)
(*                is the same behaviour with toda's own steps fair         *)
(*   SpecRpc    - TodaRpc behind the HTTP handler                          *)
(*   SpecDir    - opendir / readdir / releasedir while the host changes    *)
(*   SpecAttr   - getattr and read on files that are created and unlinked  *)
(*   SpecLock   - handlers as concurrent tasks over the RwLocks of HookFs   *)
(*   SpecReq    - spawn_reply and the reply sink of a request              *)
(*   SpecStop   - Stop::wait / Stop::wake on the Mutex and the Condvar     *)
(***************************************************************************)
EXTENDS Integers, Sequences, FiniteSets, TLC

VARIABLES
    \* ---- supervisor lifecycle (main.rs, mount_injector.rs, stop.rs)
    pcMain,            \* position of the host thread in main/inject/resume
    pcRepl,            \* subprocess of inject(): prepare, wait, replacer.run()
    pcFuse,            \* subprocess of MountInjector::mount(): fuse::mount
    pcBack,            \* subprocess of resume(): replacer.run() back to shadow
    stop,              \* Stop.inner of the five stop::lock() pairs
    swap,              \* where the original directory is: "orig" or "shadow"
    fuseMounted,       \* the FUSE filesystem is mounted at the original path
    enable_injection,  \* HookFs.enable_injection
    \* ---- ptrace registry (ptrace/mod.rs)
    counter,           \* PtraceManager.counter: HashMap from pid to count
    handles,           \* live TracedProcess values per pid
    tasks,             \* /proc/<pid>/task of each pid
    attached,          \* tasks the kernel has ptrace-attached to this thread
    tracing,           \* the trace() call in progress, or NoCall
    ptEvent,           \* what the last registry call did to the kernel
    \* ---- passthrough filesystem (hookfs/mod.rs)
    host,              \* shadow tree: name -> host inode (0 = no entry)
    isdir,             \* host inodes that are directories
    inode_map,         \* HookFs.inode_map: HashMap from ino to Node
    nlookup,           \* lookups the kernel was told of, minus forgotten
    opened_files,      \* HookFs.opened_files: Slab<File>
    opened_dirs,       \* HookFs.opened_dirs: Slab<Dir>
    leaked,            \* host inodes held by descriptors create() never stored
    released,          \* handles released and not handed out again since
    last,              \* the last request and its reply
    \* ---- injector pipeline (injector/*.rs, hookfs/mod.rs, todarpc.rs)
    injector,          \* HookFs.injector: the Vec of MultiInjector
    cancel_token,      \* positions of injector whose CancellationToken is cancelled
    request,           \* the requests in flight through the pipeline stages
    \* ---- remote calls in a tracee (ptrace/mod.rs)
    regs,              \* register file of the stopped tracee
    rip_ins,           \* the word at the tracee's original RIP
    mapped,            \* regions mapped in the tracee by mmap() and not unmapped
    remote,            \* the TracedProcess operation in progress
    \* ---- descriptors of a target process (replacer/fd_replacer.rs)
    fd_table,          \* the target's open descriptors: path, offset, flags
    accessor,          \* ProcessAccessor: its cases and how far run() got
    \* ---- the replacers over all processes (replacer/*.rs)
    targets,           \* per process: its cwd, and what its fds and maps refer to
    replacers,         \* UnionReplacer.replacers and how far run() got
    \* ---- moving the directory aside (mount_injector.rs, mount.rs)
    mount_points,      \* mount points listed in the target's mountinfo
    tree,              \* where the directory's files are seen
    mount_swap,        \* MountInjector::mount / recover_mount in progress
    \* ---- control surface (todarpc.rs, cmd/interactive/handler.rs)
    status,            \* TodaRpc.status: the Result of the setup
    tx,                \* Comm::Shutdown tokens sent through TodaRpc.tx
    response,          \* the last request handled and its Response
    \* ---- reading a directory (hookfs/mod.rs readdir)
    dir_listing,       \* the host directory: its names in the order readdir(3) yields
    dir_reader,        \* one handle of opened_dirs and the kernel reading through it
    \* ---- getattr (hookfs/mod.rs)
    attr_reply,        \* the last getattr request and its reply
    \* ---- the three RwLocks of HookFs (hookfs/mod.rs)
    rwlock,            \* per lock: the writer, the readers and the FIFO of waiters
    worker,            \* per spawned task: its handler, position and handle
    \* ---- the dispatcher of requests (hookfs/async_fs.rs, hookfs/reply.rs)
    fuse_req,          \* per request: its task, its reply sink and what was sent
    \* ---- the handshake of stop.rs, step by step
    cells,             \* per Stop: inner, the holder of its Mutex, guard dropped
    party              \* the two sides of inject(): position in wait() / wake()

lifeVars == <<pcMain, pcRepl, pcFuse, pcBack, stop, swap, fuseMounted>>
ptVars == <<counter, handles, tasks, attached, tracing, ptEvent>>
fsVars == <<host, isdir, inode_map, nlookup, opened_files, opened_dirs, leaked, released, last>>
injVars == <<injector, cancel_token, request>>
trVars == <<regs, rip_ins, mapped, remote>>
fdVars == <<fd_table, accessor>>
rpVars == <<targets, replacers>>
msVars == <<mount_points, tree, mount_swap>>
rpcVars == <<status, tx, response>>
ddVars == <<dir_listing, dir_reader>>
lkVars == <<rwlock, worker>>
midVars == <<rpVars, msVars, rpcVars, ddVars, attr_reply>>
hsVars == <<cells, party>>
lateVars == <<lkVars, fuse_req, hsVars>>
extVars == <<midVars, lateVars>>
coreVars == <<lifeVars, enable_injection, ptVars, fsVars, injVars, trVars, fdVars>>
vars == <<coreVars, extVars>>

(***************************************************************************)
(* Injector pipeline                                                       *)
(***************************************************************************)

\* Most entries of one injector configuration.
MaxInjectors == 2

\* Most requests in flight through the pipeline at once.
MaxOps == 1

Ops == 1..MaxOps

Errnos == {"EIO", "ENOSPC"}

\* InjectorConfig: the variants a configuration entry can be.
InjectorConfig ==
    {[type |-> "Fault", errno |-> e] : e \in Errnos}
        \cup {[type |-> "Latency", errno |-> "none"], [type |-> "Mistake", errno |-> "none"]}

\* The configurations update() is called with.
Configs == UNION {[1..n -> InjectorConfig] : n \in 0..MaxInjectors}

\* The configuration inject() reads from stdin.
StdinConfig == <<[type |-> "Latency", errno |-> "none"], [type |-> "Fault", errno |-> "EIO"]>>

FaultInjector(conf) == [kind |-> "fault", errno |-> conf.errno]
LatencyInjector(conf) == [kind |-> "latency", errno |-> "none"]
MistakeInjector(conf) == [kind |-> "mistake", errno |-> "none"]

\* MultiInjector::build: for injector in conf.into_iter() { injectors.push(..) }.
MultiInjectorBuild(conf) ==
    [i \in 1..Len(conf) |->
        IF conf[i].type = "Fault" THEN FaultInjector(conf[i])
        ELSE IF conf[i].type = "Latency" THEN LatencyInjector(conf[i])
        ELSE MistakeInjector(conf[i])]

\* An interrupt that reaches no token.
InterruptNone(list, tokens) == tokens

\* MultiInjector::interrupt: every injector is interrupted; the latency
\* injector cancels its token, which stays cancelled.
Interrupt(list, tokens) ==
    tokens \cup {i \in DOMAIN list : list[i].kind = "latency"}

\* The loop of MultiInjector::inject that returns the error of the last
\* injector that faults.
RECURSIVE InjectLast(_, _, _)
InjectLast(list, draw, i) ==
    IF i > Len(list) THEN [res |-> "Ok", at |-> i]
    ELSE IF i \in draw /\ list[i].kind = "latency" THEN [res |-> "sleep", at |-> i]
    ELSE LET rest == InjectLast(list, draw, i + 1)
         IN IF i \in draw /\ list[i].kind = "fault" /\ rest.res \in {"Ok", "sleep"}
            THEN [res |-> list[i].errno, at |-> i]
            ELSE rest

\* MultiInjector::inject from position i on: injector.inject(method, path)
\* .await? for each injector in turn.  draw holds the positions whose filter
\* matches this request.  FaultInjector::inject returns Err(errno) on a match,
\* LatencyInjector::inject sleeps on a match, the others return Ok(()).
RECURSIVE Inject(_, _, _)
Inject(list, draw, i) ==
    IF i > Len(list) THEN [res |-> "Ok", at |-> i]
    ELSE IF i \in draw /\ list[i].kind = "fault" THEN [res |-> list[i].errno, at |-> i]
    ELSE IF i \in draw /\ list[i].kind = "latency" THEN [res |-> "sleep", at |-> i]
    ELSE Inject(list, draw, i + 1)

\* A request that has not entered the pipeline.
NoOp ==
    [pc |-> "idle", method |-> "none", draw |-> {}, at |-> 0, consulted |-> {},
     res |-> "none", lists |-> {}, mixed |-> FALSE, acts |-> {}]

\* self.injector.read().await: the stage works on the list that is current
\* when it takes the read lock.
ReadList(r) ==
    [r EXCEPT !.lists = IF @ = {} THEN {injector} ELSE @,
              !.mixed = @ \/ (r.lists # {} /\ injector \notin r.lists)]

\* An injector of the stage has acted on the request; on is the value of
\* enable_injection at that moment.
Acted(r, stage) == [r EXCEPT !.acts = @ \cup {[stage |-> stage, on |-> enable_injection]}]

\* inject!: the pre-op stage from position i on, up to the first sleep, the
\* first fault or the end of the list.
PreOp(r, i) ==
    LET out == Inject(injector, r.draw, i)
        last_ == IF out.at > Len(injector) THEN Len(injector) ELSE out.at
        seen == [r EXCEPT !.at = out.at, !.consulted = @ \cup (i..last_), !.res = out.res]
    IN IF out.res = "Ok" THEN [seen EXCEPT !.pc = "host"]
       ELSE IF out.res = "sleep" THEN [Acted(seen, "pre") EXCEPT !.pc = "sleep"]
       ELSE [Acted(seen, "pre") EXCEPT !.pc = "done"]

OnlyOp == UNCHANGED <<lifeVars, enable_injection, ptVars, fsVars, injector, cancel_token, trVars, fdVars, extVars>>

\* read / write up to the first suspension: inject_with_fh! loads
\* enable_injection and, when it is set, runs the pre-op stage.
Request(o, method) ==
    /\ request[o].pc \in {"idle", "done"}
    /\ IF enable_injection
       THEN \E draw \in SUBSET DOMAIN injector :
                request' = [request EXCEPT ![o] =
                          PreOp(ReadList([NoOp EXCEPT !.method = method, !.draw = draw]), 1)]
       ELSE request' = [request EXCEPT ![o] = [NoOp EXCEPT !.method = method, !.pc = "host"]]
    /\ OnlyOp

\* select!: sleep(latency) has run out.
LatencyElapsed(o) ==
    /\ request[o].pc = "sleep"
    /\ request' = [request EXCEPT ![o] = PreOp(request[o], request[o].at + 1)]
    /\ OnlyOp

\* select!: token.cancelled() is ready.
LatencyCancelled(o) ==
    /\ request[o].pc = "sleep"
    /\ request[o].at \in cancel_token
    /\ request' = [request EXCEPT ![o] = PreOp(request[o], request[o].at + 1)]
    /\ OnlyOp

\* inject_write_data!: no load of enable_injection; a mistake injector of
\* the current list whose filter matches sabotages the data.
WriteData(r, hit) ==
    IF r.method # "write" THEN r
    ELSE IF hit THEN Acted(ReadList(r), "data")
    ELSE ReadList(r)

\* write: inject_write_data!, then async_write; read: async_read.  The host
\* call fails or succeeds.
HostIo(o) ==
    /\ request[o].pc = "host"
    /\ \E hit \in {FALSE} \cup {TRUE : i \in {j \in DOMAIN injector : injector[j].kind = "mistake"}} :
       \E ok \in BOOLEAN :
          request' = [request EXCEPT ![o] =
                    IF ok THEN [WriteData(request[o], hit) EXCEPT !.pc = "reply"]
                    ELSE [WriteData(request[o], hit) EXCEPT !.pc = "done", !.res = "HostError"]]
    /\ OnlyOp

\* inject_reply!: with enable_injection set, MultiInjector::inject_reply
\* runs; MistakeInjector::inject_reply sabotages a Data reply on a match.
InjectReply(r, hit) ==
    IF ~enable_injection THEN r
    ELSE IF hit /\ r.method = "read" THEN Acted(ReadList(r), "reply")
    ELSE ReadList(r)

ReplyStage(o) ==
    /\ request[o].pc = "reply"
    /\ \E hit \in {FALSE} \cup {TRUE : i \in {j \in DOMAIN injector : injector[j].kind = "mistake"}} :
          request' = [request EXCEPT ![o] = [InjectReply(request[o], hit) EXCEPT !.pc = "done", !.res = "Ok"]]
    /\ OnlyOp

\* A request holds the read lock of HookFs.injector for the whole of its
\* pre-op stage, its sleeps included.
ReadLocked == {o \in Ops : request[o].pc = "sleep"}

\* TodaRpc::update: MultiInjector::build(config), then under
\* hookfs.injector.write().await the new list replaces the old one; its
\* tokens are new.
Update(conf) ==
    /\ ReadLocked = {}
    /\ injector' = MultiInjectorBuild(conf)
    /\ cancel_token' = {}
    /\ UNCHANGED <<lifeVars, enable_injection, ptVars, fsVars, request, trVars, fdVars, extVars>>

\* HookFs::new(.., injector) with MultiInjector::build of the stdin
\* configuration; no request has arrived.
InitInj ==
    /\ injector = MultiInjectorBuild(StdinConfig)
    /\ cancel_token = {}
    /\ request = [o \in Ops |-> NoOp]


(***************************************************************************)
(* Supervisor lifecycle                                                    *)
(***************************************************************************)

\* The five handshakes created by stop::lock().
Locks == {"before_mount", "after_mount", "fuse_up", "before_recover", "after_recover"}

\* Stop::new: inner = false.
StopNew == [l \in Locks |-> FALSE]

\* Stop::wake through StopGuard::drop: inner = true.
Wake(l) == [stop EXCEPT ![l] = TRUE]

\* Stop::wait returns only once inner is true.
WaitDone(l) == stop[l]

ReplExited == pcRepl \in {"exit_ok", "exit_err"}
FuseExited == pcFuse \in {"exit_ok", "exit_err"}
BackExited == pcBack \in {"exit_ok", "exit_err"}

\* inject(): with_mnt_pid_namespace clones the replacer subprocess; a failed
\* setns or clone returns the error and drops both guards of inject().
SpawnRepl ==
    /\ pcMain = "start"
    /\ \/ /\ pcMain' = "wait_before_mount"
          /\ pcRepl' = "canonicalize"
          /\ UNCHANGED stop
       \/ /\ pcMain' = "failed"
          /\ stop' = [stop EXCEPT !["before_mount"] = TRUE, !["after_mount"] = TRUE]
          /\ UNCHANGED pcRepl
    /\ UNCHANGED <<pcFuse, pcBack, swap, fuseMounted, enable_injection>>
    /\ UNCHANGED <<ptVars, fsVars, injVars, trVars, fdVars, extVars>>

\* Replacer subprocess: path.canonicalize()?.  An early return drops the
\* closure's captures, before_mount_guard among them.
ReplCanonicalize ==
    /\ pcRepl = "canonicalize"
    /\ \/ /\ pcRepl' = "prepare"
          /\ UNCHANGED stop
       \/ /\ pcRepl' = "exit_err"
          /\ stop' = Wake("before_mount")
    /\ UNCHANGED <<pcMain, pcFuse, pcBack, swap, fuseMounted, enable_injection>>
    /\ UNCHANGED <<ptVars, fsVars, injVars, trVars, fdVars, extVars>>

\* Replacer subprocess: replacer.prepare(&ptrace_manager, &path, &path)?.
ReplPrepare ==
    /\ pcRepl = "prepare"
    /\ \/ /\ pcRepl' = "drop_guard"
          /\ UNCHANGED stop
       \/ /\ pcRepl' = "exit_err"
          /\ stop' = Wake("before_mount")
    /\ UNCHANGED <<pcMain, pcFuse, pcBack, swap, fuseMounted, enable_injection>>
    /\ UNCHANGED <<ptVars, fsVars, injVars, trVars, fdVars, extVars>>

\* drop(before_mount_guard)
ReplDropGuard ==
    /\ pcRepl = "drop_guard"
    /\ pcRepl' = "wait_after_mount"
    /\ stop' = Wake("before_mount")
    /\ UNCHANGED <<pcMain, pcFuse, pcBack, swap, fuseMounted, enable_injection>>
    /\ UNCHANGED <<ptVars, fsVars, injVars, trVars, fdVars, extVars>>

\* after_mount_waiter.wait() returns; replacer.run() starts.
ReplRunStart ==
    /\ pcRepl = "wait_after_mount"
    /\ WaitDone("after_mount")
    /\ pcRepl' = "running"
    /\ UNCHANGED <<pcMain, pcFuse, pcBack, stop, swap, fuseMounted, enable_injection>>
    /\ UNCHANGED <<ptVars, fsVars, injVars, trVars, fdVars, extVars>>

\* replacer.run()? returns, the replacer is dropped, the subprocess exits.
ReplRunEnd ==
    /\ pcRepl = "running"
    /\ pcRepl' \in {"exit_ok", "exit_err"}
    /\ UNCHANGED <<pcMain, pcFuse, pcBack, stop, swap, fuseMounted, enable_injection>>
    /\ UNCHANGED <<ptVars, fsVars, injVars, trVars, fdVars, extVars>>

\* before_mount_waiter.wait(); MountInjector::create_injection()?.
CreateInjection ==
    /\ pcMain = "wait_before_mount"
    /\ WaitDone("before_mount")
    /\ \/ /\ pcMain' = "move"
          /\ UNCHANGED stop
       \/ /\ pcMain' = "failed"
          /\ stop' = Wake("after_mount")
    /\ UNCHANGED <<pcRepl, pcFuse, pcBack, swap, fuseMounted, enable_injection>>
    /\ UNCHANGED <<ptVars, fsVars, injVars, trVars, fdVars, extVars>>

\* MountInjector::mount, first subprocess: non_root and
\* move_mount(original_path, new_path), then with_mnt_pid_namespace(..)?.join()?.
\* join() hands back the closure's Result inside its own Ok, and mount() does
\* not look at it: a failed move goes on to the build.  A failed spawn or
\* waitpid returns from inject(), dropping after_mount_guard.
MoveAside ==
    /\ pcMain = "move"
    /\ \/ /\ swap' = "shadow"
          /\ pcMain' = "build"
          /\ UNCHANGED stop
       \/ /\ pcMain' = "build"
          /\ UNCHANGED <<swap, stop>>
       \/ /\ swap' \in {swap, "shadow"}
          /\ pcMain' = "failed"
          /\ stop' = Wake("after_mount")
    /\ UNCHANGED <<pcRepl, pcFuse, pcBack, fuseMounted, enable_injection>>
    /\ UNCHANGED <<ptVars, fsVars, injVars, trVars, fdVars, extVars>>

\* MountInjector::mount: MultiInjector::build(self.injector_config.clone())?
\* and HookFs::new.  The error leaves the directory moved aside.
BuildInjectors ==
    /\ pcMain = "build"
    /\ \/ /\ pcMain' = "spawn_fuse"
          /\ UNCHANGED stop
       \/ /\ pcMain' = "failed"
          /\ stop' = Wake("after_mount")
    /\ UNCHANGED <<pcRepl, pcFuse, pcBack, swap, fuseMounted, enable_injection>>
    /\ UNCHANGED <<ptVars, fsVars, injVars, trVars, fdVars, extVars>>

\* MountInjector::mount, second subprocess: cloned, never joined here.
SpawnFuse ==
    /\ pcMain = "spawn_fuse"
    /\ \/ /\ pcMain' = "wait_fuse_up"
          /\ pcFuse' = "create_dir"
          /\ UNCHANGED stop
       \/ /\ pcMain' = "failed"
          /\ stop' = [stop EXCEPT !["fuse_up"] = TRUE, !["after_mount"] = TRUE]
          /\ UNCHANGED pcFuse
    /\ UNCHANGED <<pcRepl, pcBack, swap, fuseMounted, enable_injection>>
    /\ UNCHANGED <<ptVars, fsVars, injVars, trVars, fdVars, extVars>>

\* FUSE subprocess: create_dir_all(new_path)?; drop(before_mount_guard).  The
\* guard is dropped before fuse::mount is called.
FuseDropGuard ==
    /\ pcFuse = "create_dir"
    /\ pcFuse' \in {"mounting", "exit_err"}
    /\ stop' = Wake("fuse_up")
    /\ UNCHANGED <<pcMain, pcRepl, pcBack, swap, fuseMounted, enable_injection>>
    /\ UNCHANGED <<ptVars, fsVars, injVars, trVars, fdVars, extVars>>

\* fuse::mount(fs, &original_path, &flags): the mount is made, then the
\* session loop serves requests until the filesystem is unmounted.
FuseMount ==
    /\ pcFuse = "mounting"
    /\ \/ /\ pcFuse' = "serving"
          /\ fuseMounted' = TRUE
       \/ /\ pcFuse' = "exit_err"
          /\ UNCHANGED fuseMounted
    /\ UNCHANGED <<pcMain, pcRepl, pcBack, stop, swap, enable_injection>>
    /\ UNCHANGED <<ptVars, fsVars, injVars, trVars, fdVars, extVars>>

\* The session loop ends once the filesystem is unmounted.
FuseExit ==
    /\ pcFuse = "serving"
    /\ ~fuseMounted
    /\ pcFuse' = "exit_ok"
    /\ UNCHANGED <<pcMain, pcRepl, pcBack, stop, swap, fuseMounted, enable_injection>>
    /\ UNCHANGED <<ptVars, fsVars, injVars, trVars, fdVars, extVars>>

\* mount(): before_mount_waiter.wait() returns and the one-second sleep
\* begins.
MountWaited ==
    /\ pcMain = "wait_fuse_up"
    /\ WaitDone("fuse_up")
    /\ pcMain' = "sleep"
    /\ UNCHANGED <<pcRepl, pcFuse, pcBack, stop, swap, fuseMounted, enable_injection>>
    /\ UNCHANGED <<ptVars, fsVars, injVars, trVars, fdVars, extVars>>

\* mount(): the sleep ends, Ok(MountInjectionGuard); inject():
\* drop(after_mount_guard).
MountReturns ==
    /\ pcMain = "sleep"
    /\ pcMain' = "join_repl"
    /\ stop' = Wake("after_mount")
    /\ UNCHANGED <<pcRepl, pcFuse, pcBack, swap, fuseMounted, enable_injection>>
    /\ UNCHANGED <<ptVars, fsVars, injVars, trVars, fdVars, extVars>>

\* handler.join()?; mount_guard.enable_injection().  join() fails when
\* waitpid does; the Result of the closure comes back inside Ok and is not
\* looked at.
EnableInjectionBody(joined) ==
    /\ pcMain = "join_repl"
    /\ joined
    /\ \/ /\ pcMain' = "injected"
          /\ enable_injection' = TRUE
       \/ /\ pcMain' = "failed"
          /\ UNCHANGED enable_injection
    /\ UNCHANGED <<pcRepl, pcFuse, pcBack, stop, swap, fuseMounted>>
    /\ UNCHANGED <<ptVars, fsVars, injVars, trVars, fdVars, extVars>>

JoinAndEnable == EnableInjectionBody(ReplExited)

\* main(): read(reader) returns on a signal; resume(): disable_injection(),
\* then with_mnt_pid_namespace clones the rewrite-back subprocess.
DisableAndSpawnBack ==
    /\ pcMain = "injected"
    /\ enable_injection' = FALSE
    /\ \/ /\ pcMain' = "wait_before_recover"
          /\ pcBack' = "canonicalize"
          /\ UNCHANGED stop
       \/ /\ pcMain' = "failed"
          /\ stop' = [stop EXCEPT !["before_recover"] = TRUE, !["after_recover"] = TRUE]
          /\ UNCHANGED pcBack
    /\ cancel_token' = Interrupt(injector, cancel_token)
    /\ UNCHANGED <<pcRepl, pcFuse, swap, fuseMounted>>
    /\ UNCHANGED <<ptVars, fsVars, injector, request, trVars, fdVars, extVars>>

\* Rewrite-back subprocess: path.canonicalize()? and encode_path(&path)?.
BackCanonicalize ==
    /\ pcBack = "canonicalize"
    /\ \/ /\ pcBack' = "prepare"
          /\ UNCHANGED stop
       \/ /\ pcBack' = "exit_err"
          /\ stop' = Wake("before_recover")
    /\ UNCHANGED <<pcMain, pcRepl, pcFuse, swap, fuseMounted, enable_injection>>
    /\ UNCHANGED <<ptVars, fsVars, injVars, trVars, fdVars, extVars>>

\* Rewrite-back subprocess: replacer.prepare(path, path)?.
BackPrepare ==
    /\ pcBack = "prepare"
    /\ \/ /\ pcBack' = "running"
          /\ UNCHANGED stop
       \/ /\ pcBack' = "exit_err"
          /\ stop' = Wake("before_recover")
    /\ UNCHANGED <<pcMain, pcRepl, pcFuse, swap, fuseMounted, enable_injection>>
    /\ UNCHANGED <<ptVars, fsVars, injVars, trVars, fdVars, extVars>>

\* let result = replacer.run(); drop(before_recover_guard).  The result is
\* only logged.
BackRunEndBody(done) ==
    /\ pcBack = "running"
    /\ pcBack' = done
    /\ UNCHANGED <<pcMain, pcRepl, pcFuse, stop, swap, fuseMounted, enable_injection>>
    /\ UNCHANGED <<ptVars, fsVars, injVars, trVars, fdVars, extVars>>

BackRunEnd == BackRunEndBody("drop_guard")

BackDropGuard ==
    /\ pcBack = "drop_guard"
    /\ pcBack' = "wait_after_recover"
    /\ stop' = Wake("before_recover")
    /\ UNCHANGED <<pcMain, pcRepl, pcFuse, swap, fuseMounted, enable_injection>>
    /\ UNCHANGED <<ptVars, fsVars, injVars, trVars, fdVars, extVars>>

\* after_recover_waiter.wait(); drop(replacer); Ok(()).
BackExit ==
    /\ pcBack = "wait_after_recover"
    /\ WaitDone("after_recover")
    /\ pcBack' = "exit_ok"
    /\ UNCHANGED <<pcMain, pcRepl, pcFuse, stop, swap, fuseMounted, enable_injection>>
    /\ UNCHANGED <<ptVars, fsVars, injVars, trVars, fdVars, extVars>>

\* resume(): before_recover_waiter.wait(); recover_mount() starts.
RecoverStartBody(woken) ==
    /\ pcMain = "wait_before_recover"
    /\ woken
    /\ pcMain' = "umount"
    /\ UNCHANGED <<pcRepl, pcFuse, pcBack, stop, swap, fuseMounted, enable_injection>>
    /\ UNCHANGED <<ptVars, fsVars, injVars, trVars, fdVars, extVars>>

\* Defective variant: recover_mount() without waiting for the handshake.
RecoverStartEarly == RecoverStartBody(TRUE)

RecoverStart == RecoverStartBody(WaitDone("before_recover"))

\* recover_mount(): loop { umount(mount_point) } until it returns Ok; a
\* failed subprocess spawn returns the error, dropping after_recover_guard.
Umount ==
    /\ pcMain = "umount"
    /\ \/ /\ fuseMounted
          /\ fuseMounted' = FALSE
          /\ pcMain' = "join_fuse"
          /\ UNCHANGED stop
       \/ /\ UNCHANGED <<fuseMounted, pcMain, stop>>
       \/ /\ pcMain' = "failed"
          /\ stop' = Wake("after_recover")
          /\ UNCHANGED fuseMounted
    /\ UNCHANGED <<pcRepl, pcFuse, pcBack, swap, enable_injection>>
    /\ UNCHANGED <<ptVars, fsVars, injVars, trVars, fdVars, extVars>>

\* self.handler.take()...join()?: the FUSE subprocess has exited.
JoinFuse ==
    /\ pcMain = "join_fuse"
    /\ FuseExited
    /\ \/ /\ pcMain' = "restore"
          /\ UNCHANGED stop
       \/ /\ pcMain' = "failed"
          /\ stop' = Wake("after_recover")
    /\ UNCHANGED <<pcRepl, pcFuse, pcBack, swap, fuseMounted, enable_injection>>
    /\ UNCHANGED <<ptVars, fsVars, injVars, trVars, fdVars, extVars>>

\* recover_mount(), last subprocess: move_mount(new_path, original_path),
\* its Result not looked at after join()?; then resume() drops
\* after_recover_guard, at the drop or on the early return.
RestoreBody(unmounted) ==
    /\ pcMain = "restore"
    /\ unmounted
    /\ \/ /\ swap' = "orig"
          /\ pcMain' = "join_back"
       \/ /\ pcMain' = "join_back"
          /\ UNCHANGED swap
       \/ /\ pcMain' = "failed"
          /\ swap' \in {swap, "orig"}
    /\ stop' = Wake("after_recover")
    /\ UNCHANGED <<pcRepl, pcFuse, pcBack, fuseMounted, enable_injection>>
    /\ UNCHANGED <<ptVars, fsVars, injVars, trVars, fdVars, extVars>>

Restore == RestoreBody(TRUE)

\* handler.join()?
JoinBack ==
    /\ pcMain = "join_back"
    /\ BackExited
    /\ pcMain' \in {"done", "failed"}
    /\ UNCHANGED <<pcRepl, pcFuse, pcBack, stop, swap, fuseMounted, enable_injection>>
    /\ UNCHANGED <<ptVars, fsVars, injVars, trVars, fdVars, extVars>>

InitLife ==
    /\ pcMain = "start"
    /\ pcRepl = "idle"
    /\ pcFuse = "idle"
    /\ pcBack = "idle"
    /\ stop = StopNew
    /\ swap = "orig"
    /\ fuseMounted = FALSE
    /\ enable_injection = FALSE

NextLife ==
    \/ SpawnRepl \/ ReplCanonicalize \/ ReplPrepare \/ ReplDropGuard \/ ReplRunStart \/ ReplRunEnd
    \/ CreateInjection \/ MoveAside \/ BuildInjectors \/ SpawnFuse
    \/ FuseDropGuard \/ FuseMount \/ FuseExit \/ MountWaited \/ MountReturns \/ JoinAndEnable \/ DisableAndSpawnBack
    \/ BackCanonicalize \/ BackPrepare \/ BackRunEnd \/ BackDropGuard \/ BackExit \/ RecoverStart
    \/ Umount \/ JoinFuse \/ Restore \/ JoinBack

(***************************************************************************)
(* Ptrace registry                                                         *)
(***************************************************************************)

\* Most TracedProcess values alive at once for one pid.
MaxHandles == 2

\* Most tasks one process has over its life.
MaxTasks == 2

Pids == {"p", "q"}
Tids == 1..MaxTasks

NoCall == [pid |-> "none"]

\* A remove that leaves the entry in the HashMap.
CounterKeep(c, pid) == c

\* counter.insert(pid, n) / counter.remove(pid) on the HashMap.
CounterInsert(c, pid, n) == [x \in DOMAIN c \cup {pid} |-> IF x = pid THEN n ELSE c[x]]
CounterRemove(c, pid) == [x \in DOMAIN c \ {pid} |-> c[x]]

Event(call, pid, attach, detach, before, after) ==
    [call |-> call, pid |-> pid, attach |-> attach, detach |-> detach,
     before |-> before, after |-> after]

CountOf(c, pid) == IF pid \in DOMAIN c THEN c[pid] ELSE 0

\* PtraceManager::trace, entry: an entry for the pid is bumped and the call
\* returns a TracedProcess; otherwise the attach loop starts with
\* iterations = 2 and an empty traced_tasks.
TraceBody(pid) ==
    /\ tracing = NoCall
    /\ handles[pid] < MaxHandles
    /\ IF pid \in DOMAIN counter
       THEN /\ counter' = [counter EXCEPT ![pid] = @ + 1]
            /\ handles' = [handles EXCEPT ![pid] = @ + 1]
            /\ ptEvent' = Event("trace", pid, {}, FALSE,
                                [refs |-> handles[pid], count |-> counter[pid]],
                                [refs |-> handles[pid] + 1, count |-> counter[pid] + 1])
            /\ UNCHANGED tracing
       ELSE /\ tracing' = [pid |-> pid, iterations |-> 2, traced_tasks |-> {},
                            first |-> "none", gone |-> {}]
            /\ ptEvent' = Event("trace", pid, {}, FALSE,
                                [refs |-> handles[pid], count |-> 0],
                                [refs |-> handles[pid], count |-> 0])
            /\ UNCHANGED <<counter, handles>>
    /\ UNCHANGED <<tasks, attached>>
    /\ UNCHANGED <<lifeVars, enable_injection, fsVars, injVars, trVars, fdVars, extVars>>

\* ptrace::trace(pid) called by a replacer.
Trace(pid) == TraceBody(pid)

\* TracedProcess::clone: PTRACE_MANAGER.trace(self.pid).unwrap()
Clone(pid) ==
    /\ handles[pid] > 0
    /\ TraceBody(pid)

\* One pass of the while loop of trace: Process::new(raw_pid)? fails when the
\* process is gone; every task not yet in traced_tasks is handed to
\* attach_task, and those for which it returns Ok are recorded.  attach_task
\* returns Ok for a task it attached and for one that ptrace::attach found
\* gone (ESRCH, or EPERM on a zombie).  A pass that
\* finds nothing new decrements iterations; at zero the pid is inserted with
\* count 1 and the TracedProcess is returned.  first keeps the result of the
\* call's first attach_task, gone the tasks attach_task found gone.
\* Result of the first attach_task call of a trace: process.tasks() lists
\* the tasks in tid order, and the call is Ok for the tasks in ok.
FirstAttach(pid, ok) ==
    LET new == tasks[pid] \ tracing.traced_tasks
    IN IF \E t \in new : (\A u \in new : t <= u) /\ t \in ok THEN "ok" ELSE "failed"

TracePassBody(pid, ok, attachNow) ==
    LET t == tracing
        found == ok /= {}
        left == IF found THEN t.iterations ELSE t.iterations - 1
    IN  /\ attached' = [attached EXCEPT ![pid] = @ \cup attachNow]
        /\ IF left = 0
           THEN /\ tracing' = NoCall
                /\ counter' = CounterInsert(counter, pid, 1)
                /\ handles' = [handles EXCEPT ![pid] = @ + 1]
           ELSE /\ tracing' = [t EXCEPT !.iterations = left,
                                        !.traced_tasks = @ \cup ok,
                                        !.first = IF @ = "none" THEN FirstAttach(pid, ok) ELSE @,
                                        !.gone = @ \cup (ok \ attachNow)]
                /\ UNCHANGED <<counter, handles>>
        /\ ptEvent' = Event("trace", pid, attachNow, FALSE,
                            [refs |-> handles[pid], count |-> CountOf(counter, pid)],
                            [refs |-> handles'[pid], count |-> CountOf(counter', pid)])

TracePass ==
    /\ tracing /= NoCall
    /\ LET pid == tracing.pid IN
       IF tasks[pid] = {}
       THEN /\ tracing' = NoCall
            /\ ptEvent' = Event("trace", pid, {}, FALSE,
                                [refs |-> handles[pid], count |-> CountOf(counter, pid)],
                                [refs |-> handles[pid], count |-> CountOf(counter, pid)])
            /\ UNCHANGED <<counter, handles, attached>>
       ELSE \E ok \in SUBSET (tasks[pid] \ tracing.traced_tasks) :
                \E attachNow \in SUBSET ok :
                    TracePassBody(pid, ok, attachNow)
    /\ UNCHANGED tasks
    /\ UNCHANGED <<lifeVars, enable_injection, fsVars, injVars, trVars, fdVars, extVars>>

\* Defective variant: the sweep runs on every detach call.
DetachSweepAlways(pid, count) == TRUE

\* detach: `if *count < 1` decides whether the entry is removed and
\* ptrace::detach is called on every task listed under /proc/<pid>/task.
DetachSweep(pid, count) == count < 1

\* PtraceManager::detach: decrement; below 1 the entry is removed and every
\* task is detached, retrying 20 times while /proc/<pid> cannot be read.  A
\* pid without an entry is an error and changes nothing.
DetachBody(pid, swept) ==
    IF pid \in DOMAIN counter
    THEN LET count == counter[pid] - 1 IN
         IF DetachSweep(pid, count)
         THEN /\ counter' = CounterRemove(counter, pid)
              /\ attached' = IF swept THEN [attached EXCEPT ![pid] = {}] ELSE attached
              /\ ptEvent' = Event("detach", pid, {}, swept,
                                  [refs |-> handles[pid], count |-> counter[pid]],
                                  [refs |-> handles'[pid], count |-> 0])
         ELSE /\ counter' = [counter EXCEPT ![pid] = count]
              /\ ptEvent' = Event("detach", pid, {}, FALSE,
                                  [refs |-> handles[pid], count |-> counter[pid]],
                                  [refs |-> handles'[pid], count |-> count])
              /\ UNCHANGED attached
    ELSE /\ ptEvent' = Event("detach_error", pid, {}, FALSE,
                             [refs |-> handles[pid], count |-> 0],
                             [refs |-> handles'[pid], count |-> 0])
         /\ UNCHANGED <<counter, attached>>

\* TracedProcess::drop: PTRACE_MANAGER.detach(self.pid), the error logged.
Drop(pid) ==
    /\ tracing = NoCall
    /\ handles[pid] > 0
    /\ handles' = [handles EXCEPT ![pid] = @ - 1]
    /\ \E swept \in BOOLEAN : DetachBody(pid, swept)
    /\ UNCHANGED <<tasks, tracing>>
    /\ UNCHANGED <<lifeVars, enable_injection, fsVars, injVars, trVars, fdVars, extVars>>

\* PtraceManager::detach called for a pid no TracedProcess refers to.
DetachUntraced(pid) ==
    /\ tracing = NoCall
    /\ handles[pid] = 0
    /\ pid \notin DOMAIN counter
    /\ UNCHANGED handles
    /\ DetachBody(pid, TRUE)
    /\ UNCHANGED <<tasks, tracing>>
    /\ UNCHANGED <<lifeVars, enable_injection, fsVars, injVars, trVars, fdVars, extVars>>

\* The target creates a thread.
SpawnTask(pid) ==
    /\ tasks[pid] /= {}
    /\ \E t \in Tids \ tasks[pid] :
          /\ tasks' = [tasks EXCEPT ![pid] = @ \cup {t}]
    /\ UNCHANGED <<counter, handles, attached, tracing, ptEvent>>
    /\ UNCHANGED <<lifeVars, enable_injection, fsVars, injVars, trVars, fdVars, extVars>>

\* A task of the target exits; the kernel drops its ptrace link.
ExitTask(pid) ==
    /\ \E t \in tasks[pid] :
          /\ tasks' = [tasks EXCEPT ![pid] = @ \ {t}]
          /\ attached' = [attached EXCEPT ![pid] = @ \ {t}]
    /\ UNCHANGED <<counter, handles, tracing, ptEvent>>
    /\ UNCHANGED <<lifeVars, enable_injection, fsVars, injVars, trVars, fdVars, extVars>>

InitPtrace ==
    /\ counter = << >>
    /\ handles = [p \in Pids |-> 0]
    /\ tasks = [p \in Pids |-> {1}]
    /\ attached = [p \in Pids |-> {}]
    /\ tracing = NoCall
    /\ ptEvent = Event("none", "none", {}, FALSE,
                       [refs |-> 0, count |-> 0], [refs |-> 0, count |-> 0])

NextPtrace ==
    \E pid \in Pids :
        \/ Trace(pid) \/ Clone(pid) \/ TracePass \/ Drop(pid)
        \/ DetachUntraced(pid) \/ SpawnTask(pid) \/ ExitTask(pid)


(***************************************************************************)
(* Passthrough filesystem: InodeMap, FhMap and the request handlers        *)
(***************************************************************************)

\* Largest host inode number of the shadow tree.
MaxIno == 3

\* Largest ref_count a node is driven to.
MaxRef == 2

\* Slots a handle slab grows to.
MaxOpen == 2

\* Largest nlookup argument of a forget request.
MaxForget == 2

Names == {"a", "b"}

\* The mount root is FUSE inode 1 (FUSE_ROOT_ID, HookFs::new).
RootIno == 1
HostInos == (RootIno + 1)..MaxIno
Inos == {RootIno} \cup HostInos

\* original_path of HookFs (the shadow directory) and the entries below it.
RootPath == << >>
Join(path, name) == Append(path, name)
NoPath == <<"?">>

Range(seq) == {seq[i] : i \in 1..Len(seq)}

\* lstat(path).st_ino in the shadow tree; 0 when the path has no entry.  The
\* shadow directory itself is listed under the number of the mount root.
Lstat(path) ==
    IF Len(path) = 0 THEN RootIno
    ELSE IF Len(path) = 1 THEN host[path[1]] ELSE 0

\* Host inodes that are directories, the shadow directory among them.
Dirs == isdir \cup {RootIno}

\* Node::get_path: paths.back()
NodeGetPath(node) ==
    IF Len(node.paths) = 0 THEN NoPath ELSE node.paths[Len(node.paths)]

\* Node::insert: push_back unless the path is already listed.
NodeInsert(node, path) ==
    IF path \in Range(node.paths) THEN node
    ELSE [node EXCEPT !.paths = Append(@, path)]

\* Node::remove: drain_filter(|x| x == path)
NodeRemove(node, path) ==
    [node EXCEPT !.paths = SelectSeq(@, LAMBDA x : x /= path)]

\* Node::default()
NodeDefault == [ref_count |-> 0, paths |-> << >>]

\* InodeMap::get_path: NoPath stands for Error::InodeNotFound.
GetPath(m, inode) ==
    IF inode \in DOMAIN m THEN NodeGetPath(m[inode]) ELSE NoPath

\* InodeMap::increase_ref
IncreaseRef(m, inode) ==
    IF inode \in DOMAIN m THEN [m EXCEPT ![inode].ref_count = @ + 1] ELSE m

\* InodeMap::decrease_ref: the node is removed when ref_count <= nlookup and
\* is otherwise left as it is.
DecreaseRef(m, inode, n) ==
    IF inode \in DOMAIN m /\ m[inode].ref_count <= n
    THEN [i \in DOMAIN m \ {inode} |-> m[i]]
    ELSE m

\* Defective variant: the node's path list is replaced by the new path alone.
InsertPathFresh(m, inode, path) ==
    [i \in DOMAIN m \cup {inode} |->
        IF i = inode
        THEN [ref_count |-> IF inode \in DOMAIN m THEN m[inode].ref_count ELSE 0,
              paths |-> <<path>>]
        ELSE m[i]]

\* InodeMap::insert_path: entry(inode).or_default().insert(path)
InsertPath(m, inode, path) ==
    [i \in DOMAIN m \cup {inode} |->
        IF i = inode
        THEN NodeInsert(IF inode \in DOMAIN m THEN m[inode] ELSE NodeDefault, path)
        ELSE m[i]]

\* Defective variant: a node left without a path is dropped from the map.
RemovePathDrop(m, inode, path) ==
    IF inode \notin DOMAIN m THEN m
    ELSE IF NodeRemove(m[inode], path).paths = << >>
         THEN [i \in DOMAIN m \ {inode} |-> m[i]]
         ELSE [m EXCEPT ![inode] = NodeRemove(@, path)]

\* InodeMap::remove_path: a missing inode is only logged.
RemovePath(m, inode, path) ==
    IF inode \in DOMAIN m THEN [m EXCEPT ![inode] = NodeRemove(@, path)] ELSE m

\* Slab<T>: entries are Occupied(val) or Vacant(next free key); keys are
\* 0-based, `next` is the key the next insert returns.
SlabNew == [entries |-> << >>, next |-> 0]
Occupied(v) == [occ |-> TRUE, val |-> v]
Vacant(n) == [occ |-> FALSE, next |-> n]

\* Slab::contains / FhMap::get succeeds
Live(s, key) ==
    /\ key \in 0..(Len(s.entries) - 1)
    /\ s.entries[key + 1].occ

\* FhMap::get
SlabGet(s, key) == s.entries[key + 1].val

\* Defective variant: the free-list head is not advanced by an insert.
SlabInsertStale(s, v) ==
    IF s.next >= Len(s.entries)
    THEN [entries |-> Append(s.entries, Occupied(v)), next |-> s.next]
    ELSE [entries |-> [s.entries EXCEPT ![s.next + 1] = Occupied(v)],
          next |-> s.next]

\* Slab::insert returns s.next as the key.
SlabInsert(s, v) ==
    IF s.next = Len(s.entries)
    THEN [entries |-> Append(s.entries, Occupied(v)), next |-> s.next + 1]
    ELSE [entries |-> [s.entries EXCEPT ![s.next + 1] = Occupied(v)],
          next |-> s.entries[s.next + 1].next]

\* Slab::remove on an occupied key.
SlabRemove(s, key) ==
    [entries |-> [s.entries EXCEPT ![key + 1] = Vacant(s.next)], next |-> key]

LiveKeys(s) == {k \in 0..(Len(s.entries) - 1) : s.entries[k + 1].occ}

\* Room for one more handle within MaxOpen slots.
HasRoom(s) == s.next < MaxOpen

\* Host inodes in use: named in the shadow tree or held by an open handle.
HeldInos ==
    {SlabGet(opened_files, k).fd : k \in LiveKeys(opened_files)}
    \cup {SlabGet(opened_dirs, k).dir : k \in LiveKeys(opened_dirs)}
    \cup leaked
UsedInos == {host[n] : n \in Names} \cup HeldInos
FreeInos == HostInos \ UsedInos

Reply(op, fh, res) == [op |-> op, fh |-> fh, res |-> res]

NoFh == 0 - 1
Fhs == 0..(MaxOpen - 1)

\* `last` keeps the reply to the last request that named or returned a file
\* handle; requests without one leave it as it is.
Observe(op, fh, res) == IF fh = NoFh THEN last ELSE Reply(op, fh, res)

\* A request handler touches the filesystem state only.
OnlyFs == UNCHANGED <<lifeVars, ptVars, enable_injection, injVars, trVars, fdVars, extVars>>

\* The request fails before it changes anything; err is the error replied.
Fails(op, fh, err) ==
    /\ last' = Observe(op, fh, err)
    /\ UNCHANGED <<host, isdir, inode_map, nlookup, opened_files, opened_dirs, leaked, released>>

\* inject!: with injection enabled the pipeline may answer with an errno.
Faulted(op, fh) ==
    /\ enable_injection
    /\ Fails(op, fh, "InjectedFault")

\* insert_path(stat.ino, path); increase_ref(stat.ino), and the Entry reply
\* that makes the kernel count one more lookup of stat.ino.
Resolved(m, ino, path) == IncreaseRef(InsertPath(m, ino, path), ino)

CountLookup(ino) == [nlookup EXCEPT ![ino] = @ + 1]

CanCount(ino) ==
    /\ nlookup[ino] < MaxRef
    /\ ino \in DOMAIN inode_map => inode_map[ino].ref_count < MaxRef

\* Directory inodes that are still in use once the tree is h.
DirsIn(h, dirs) == {i \in dirs : i \in {h[n] : n \in Names} \cup HeldInos}

\* The path lies below an entry that is no directory: the host call fails.
BelowNonDir(pp, path) == Len(path) > 1 /\ Lstat(pp) \notin Dirs

\* lookup
Lookup(parent, name) ==
    LET pp == GetPath(inode_map, parent)
        path == Join(pp, name)
        ino == Lstat(path)
    IN  /\ OnlyFs
        /\ \/ pp /= NoPath /\ Faulted("lookup", NoFh)
           \/ pp = NoPath /\ Fails("lookup", NoFh, "InodeNotFound")
           \/ pp /= NoPath /\ ino = 0 /\ Fails("lookup", NoFh, "ENOENT")
           \/ /\ pp /= NoPath
              /\ ino /= 0
              /\ CanCount(ino)
              /\ inode_map' = Resolved(inode_map, ino, path)
              /\ nlookup' = CountLookup(ino)
              /\ last' = Observe("lookup", NoFh, "Ok")
              /\ UNCHANGED <<host, isdir, opened_files, opened_dirs, leaked, released>>

\* forget: decrease_ref under the write lock; there is no reply.
Forget(ino, n) ==
    /\ OnlyFs
    /\ inode_map' = DecreaseRef(inode_map, ino, n)
    /\ nlookup' = [nlookup EXCEPT ![ino] = IF @ > n THEN @ - n ELSE 0]
    /\ UNCHANGED last
    /\ UNCHANGED <<host, isdir, opened_files, opened_dirs, leaked, released>>

\* mknod, mkdir and symlink: make the entry on the host, lchown it, stat it,
\* then insert_path and increase_ref.
MakeNode(op, parent, name, dir) ==
    LET pp == GetPath(inode_map, parent)
        path == Join(pp, name)
    IN  /\ OnlyFs
        /\ \/ pp /= NoPath /\ Faulted(op, NoFh)
           \/ pp = NoPath /\ Fails(op, NoFh, "InodeNotFound")
           \/ pp /= NoPath /\ BelowNonDir(pp, path) /\ Fails(op, NoFh, "ENOTDIR")
           \/ pp /= NoPath /\ Len(path) = 1 /\ Lstat(path) /= 0 /\ Fails(op, NoFh, "EEXIST")
           \/ /\ pp /= NoPath
              /\ Len(path) = 1
              /\ Lstat(path) = 0
              /\ \E ino \in FreeInos :
                   /\ host' = [host EXCEPT ![name] = ino]
                   /\ isdir' = IF dir THEN isdir \cup {ino} ELSE isdir \ {ino}
                   /\ \/ /\ last' = Observe(op, NoFh, "EPERM")
                         /\ UNCHANGED <<inode_map, nlookup>>
                      \/ /\ CanCount(ino)
                         /\ inode_map' = Resolved(inode_map, ino, path)
                         /\ nlookup' = CountLookup(ino)
                         /\ last' = Observe(op, NoFh, "Ok")
              /\ UNCHANGED <<opened_files, opened_dirs, leaked, released>>

Mknod(parent, name) == MakeNode("mknod", parent, name, FALSE)
Mkdir(parent, name) == MakeNode("mkdir", parent, name, TRUE)
Symlink(parent, name) == MakeNode("symlink", parent, name, FALSE)

\* unlink and rmdir: stat the path, remove the host entry, remove_path.
RemoveNode(op, parent, name, dir) ==
    LET pp == GetPath(inode_map, parent)
        path == Join(pp, name)
        ino == Lstat(path)
    IN  /\ OnlyFs
        /\ \/ pp /= NoPath /\ Faulted(op, NoFh)
           \/ pp = NoPath /\ Fails(op, NoFh, "InodeNotFound")
           \/ pp /= NoPath /\ ino = 0 /\ Fails(op, NoFh, "ENOENT")
           \/ pp /= NoPath /\ ino /= 0 /\ (ino \in isdir) /= dir
                 /\ Fails(op, NoFh, IF dir THEN "ENOTDIR" ELSE "EISDIR")
           \/ /\ pp /= NoPath
              /\ ino /= 0
              /\ (ino \in isdir) = dir
              /\ host' = [host EXCEPT ![name] = 0]
              /\ isdir' = DirsIn(host', isdir)
              /\ inode_map' = RemovePath(inode_map, ino, path)
              /\ last' = Observe(op, NoFh, "Ok")
              /\ UNCHANGED <<nlookup, opened_files, opened_dirs, leaked, released>>

Unlink(parent, name) == RemoveNode("unlink", parent, name, FALSE)
Rmdir(parent, name) == RemoveNode("rmdir", parent, name, TRUE)

\* rename: renameat on the host, stat the new path, remove_path(old) and
\* insert_path(new) on the inode found there.
Rename(parent, name, newparent, newname) ==
    LET pp == GetPath(inode_map, parent)
        np == GetPath(inode_map, newparent)
        old_path == Join(pp, name)
        new_path == Join(np, newname)
        src == Lstat(old_path)
        dst == Lstat(new_path)
    IN  /\ OnlyFs
        /\ \/ pp /= NoPath /\ Faulted("rename", NoFh)
           \/ (pp = NoPath \/ np = NoPath) /\ Fails("rename", NoFh, "InodeNotFound")
           \/ pp /= NoPath /\ np /= NoPath /\ src = 0 /\ Fails("rename", NoFh, "ENOENT")
           \/ pp /= NoPath /\ np /= NoPath /\ src /= 0 /\ BelowNonDir(np, new_path)
                 /\ Fails("rename", NoFh, "ENOTDIR")
           \/ pp /= NoPath /\ np /= NoPath /\ src /= 0 /\ Len(new_path) = 1 /\ dst /= 0
                 /\ (src \in Dirs) /= (dst \in Dirs)
                 /\ Fails("rename", NoFh, "EISDIR")
           \/ /\ pp /= NoPath /\ np /= NoPath
              /\ src /= 0
              /\ Len(new_path) = 1
              /\ dst /= 0 => (src \in Dirs) = (dst \in Dirs)
              /\ host' = IF src = dst THEN host
                         ELSE [host EXCEPT ![name] = 0, ![newname] = src]
              /\ isdir' = DirsIn(host', isdir)
              /\ inode_map' = InsertPath(RemovePath(inode_map, src, old_path), src, new_path)
              /\ last' = Observe("rename", NoFh, "Ok")
              /\ UNCHANGED <<nlookup, opened_files, opened_dirs, leaked, released>>

\* link: linkat(get_path(ino), new_path), stat the new path, insert_path and
\* increase_ref on the inode found there.
Link(ino, newparent, newname) ==
    LET original_path == GetPath(inode_map, ino)
        np == GetPath(inode_map, newparent)
        new_path == Join(np, newname)
        src == Lstat(original_path)
    IN  /\ OnlyFs
        /\ \/ original_path /= NoPath /\ Faulted("link", NoFh)
           \/ (original_path = NoPath \/ np = NoPath) /\ Fails("link", NoFh, "InodeNotFound")
           \/ original_path /= NoPath /\ np /= NoPath /\ src = 0 /\ Fails("link", NoFh, "ENOENT")
           \/ original_path /= NoPath /\ np /= NoPath /\ src \in Dirs /\ Fails("link", NoFh, "EPERM")
           \/ original_path /= NoPath /\ np /= NoPath /\ src /= 0 /\ src \notin Dirs
                 /\ BelowNonDir(np, new_path) /\ Fails("link", NoFh, "ENOTDIR")
           \/ original_path /= NoPath /\ np /= NoPath /\ src /= 0 /\ src \notin Dirs
                 /\ Len(new_path) = 1 /\ Lstat(new_path) /= 0 /\ Fails("link", NoFh, "EEXIST")
           \/ /\ original_path /= NoPath /\ np /= NoPath
              /\ src /= 0 /\ src \notin Dirs
              /\ Len(new_path) = 1
              /\ Lstat(new_path) = 0
              /\ CanCount(src)
              /\ host' = [host EXCEPT ![newname] = src]
              /\ inode_map' = Resolved(inode_map, src, new_path)
              /\ nlookup' = CountLookup(src)
              /\ last' = Observe("link", NoFh, "Ok")
              /\ UNCHANGED <<isdir, opened_files, opened_dirs, leaked, released>>


File(fd, path) == [fd |-> fd, original_path |-> path]
Dir(dir, path) == [dir |-> dir, original_path |-> path]

Reissue(kind, key) == [released EXCEPT ![kind] = @ \ {key}]
Retire(kind, key) == [released EXCEPT ![kind] = @ \cup {key}]

\* create: open(path, flags, mode) makes the file or opens the one that is
\* there, lchown, stat, then the handle is inserted, then insert_path and
\* increase_ref.  A failed lchown returns with the descriptor still open.
Create(parent, name) ==
    LET pp == GetPath(inode_map, parent)
        path == Join(pp, name)
        there == Lstat(path)
    IN  /\ OnlyFs
        /\ \/ pp /= NoPath /\ Faulted("create", NoFh)
           \/ pp = NoPath /\ Fails("create", NoFh, "InodeNotFound")
           \/ pp /= NoPath /\ BelowNonDir(pp, path) /\ Fails("create", NoFh, "ENOTDIR")
           \/ pp /= NoPath /\ Len(path) = 1 /\ there \in isdir /\ Fails("create", NoFh, "EISDIR")
           \/ /\ pp /= NoPath
              /\ Len(path) = 1
              /\ there \notin isdir
              /\ \E ino \in IF there /= 0 THEN {there} ELSE FreeInos :
                   /\ host' = [host EXCEPT ![name] = ino]
                   /\ \/ /\ leaked' = leaked \cup {ino}
                         /\ last' = Observe("create", NoFh, "EPERM")
                         /\ UNCHANGED <<inode_map, nlookup, opened_files, released>>
                      \/ /\ CanCount(ino)
                         /\ HasRoom(opened_files)
                         /\ opened_files' = SlabInsert(opened_files, File(ino, path))
                         /\ inode_map' = Resolved(inode_map, ino, path)
                         /\ nlookup' = CountLookup(ino)
                         /\ released' = Reissue("files", opened_files.next)
                         /\ last' = Observe("create", opened_files.next, "Ok")
                         /\ UNCHANGED leaked
              /\ UNCHANGED <<isdir, opened_dirs>>

\* open: the handle is inserted into opened_files.
Open(ino) ==
    LET path == GetPath(inode_map, ino)
        fd == Lstat(path)
    IN  /\ OnlyFs
        /\ \/ path /= NoPath /\ Faulted("open", NoFh)
           \/ path = NoPath /\ Fails("open", NoFh, "InodeNotFound")
           \/ path /= NoPath /\ fd = 0 /\ Fails("open", NoFh, "ENOENT")
           \/ /\ path /= NoPath
              /\ fd /= 0
              /\ HasRoom(opened_files)
              /\ opened_files' = SlabInsert(opened_files, File(fd, path))
              /\ released' = Reissue("files", opened_files.next)
              /\ last' = Observe("open", opened_files.next, "Ok")
              /\ UNCHANGED <<host, isdir, inode_map, nlookup, opened_dirs, leaked>>

\* opendir: the handle is inserted into opened_dirs.
Opendir(ino) ==
    LET path == GetPath(inode_map, ino)
        dir == Lstat(path)
    IN  /\ OnlyFs
        /\ \/ path /= NoPath /\ Faulted("opendir", NoFh)
           \/ path = NoPath /\ Fails("opendir", NoFh, "InodeNotFound")
           \/ path /= NoPath /\ dir = 0 /\ Fails("opendir", NoFh, "ENOENT")
           \/ path /= NoPath /\ dir /= 0 /\ dir \notin Dirs /\ Fails("opendir", NoFh, "ENOTDIR")
           \/ /\ path /= NoPath
              /\ dir \in Dirs
              /\ HasRoom(opened_dirs)
              /\ opened_dirs' = SlabInsert(opened_dirs, Dir(dir, path))
              /\ released' = Reissue("dirs", opened_dirs.next)
              /\ last' = Observe("opendir", opened_dirs.next, "Ok")
              /\ UNCHANGED <<host, isdir, inode_map, nlookup, opened_files, leaked>>

\* read, write on a file handle and readdir on a directory handle: the
\* inject_with_fh! fault applies when the handle is found, then FhMap::get
\* decides between Error::FhNotFound and the host call.
HandleOp(op, table, fh) ==
    /\ OnlyFs
    /\ \/ Live(table, fh) /\ Faulted(op, fh)
       \/ ~Live(table, fh) /\ Fails(op, fh, "FhNotFound")
       \/ Live(table, fh) /\ Fails(op, fh, "Ok")

Read(fh) == HandleOp("read", opened_files, fh)
Write(fh) == HandleOp("write", opened_files, fh)
Readdir(fh) == HandleOp("readdir", opened_dirs, fh)

\* The close of release: async_close(file.fd).await? returns its error
\* before opened_files.remove(fh) is reached.
CloseFails(fh) ==
    /\ Live(opened_files, fh)
    /\ released' = Retire("files", fh)
    /\ last' = Observe("release", fh, "EIO")
    /\ UNCHANGED <<host, isdir, inode_map, nlookup, opened_files, opened_dirs, leaked>>

\* release: close the descriptor of a handle that is found, then
\* opened_files.remove(fh); Slab::remove panics on a key that is not occupied.
Release(fh) ==
    /\ OnlyFs
    /\ \/ /\ Live(opened_files, fh)
          /\ opened_files' = SlabRemove(opened_files, fh)
          /\ released' = Retire("files", fh)
          /\ last' = Observe("release", fh, "Ok")
          /\ UNCHANGED <<host, isdir, inode_map, nlookup, opened_dirs, leaked>>
       \/ CloseFails(fh)
       \/ ~Live(opened_files, fh) /\ Fails("release", fh, "Panic")

\* releasedir: opened_dirs.remove(fh)
Releasedir(fh) ==
    /\ OnlyFs
    /\ \/ /\ Live(opened_dirs, fh)
          /\ opened_dirs' = SlabRemove(opened_dirs, fh)
          /\ released' = Retire("dirs", fh)
          /\ last' = Observe("releasedir", fh, "Ok")
          /\ UNCHANGED <<host, isdir, inode_map, nlookup, opened_files, leaked>>
       \/ ~Live(opened_dirs, fh) /\ Fails("releasedir", fh, "Panic")

\* HookFs::enable_injection / HookFs::disable_injection
EnableInjection ==
    /\ enable_injection' = TRUE
    /\ UNCHANGED <<lifeVars, ptVars, fsVars, injVars, trVars, fdVars, extVars>>

DisableInjection ==
    /\ enable_injection' = FALSE
    /\ cancel_token' = Interrupt(injector, cancel_token)
    /\ UNCHANGED <<lifeVars, ptVars, fsVars, injector, request, trVars, fdVars, extVars>>

\* HookFs::new: inode 1 is inserted with the shadow directory as its path
\* and ref_count 0; both slabs are empty; injection is off.
HookFsNew ==
    /\ inode_map = InsertPath(<< >>, RootIno, RootPath)
    /\ opened_files = SlabNew
    /\ opened_dirs = SlabNew
    /\ enable_injection = FALSE

InitFs ==
    /\ HookFsNew
    /\ host = [n \in Names |-> 0]
    /\ isdir = {}
    /\ nlookup = [i \in Inos |-> 0]
    /\ leaked = {}
    /\ released = [files |-> {}, dirs |-> {}]
    /\ last = Reply("init", NoFh, "Ok")

\* Requests on the inode table.
NextFs ==
    \/ \E parent \in Inos, name \in Names :
          \/ Lookup(parent, name) \/ Mknod(parent, name) \/ Mkdir(parent, name)
          \/ Symlink(parent, name)
          \/ Unlink(parent, name) \/ Rmdir(parent, name)
          \/ \E newparent \in Inos, newname \in Names :
                Rename(parent, name, newparent, newname)
          \/ \E ino \in Inos : Link(ino, parent, name)
    \/ \E ino \in Inos, n \in 0..MaxForget : Forget(ino, n)
    \/ EnableInjection
    \/ DisableInjection

\* Requests on the handle tables, with create to make the files.
NextFh ==
    \/ \E name \in Names : Create(RootIno, name)
    \/ \E ino \in Inos : Open(ino) \/ Opendir(ino)
    \/ \E fh \in Fhs :
          \/ Read(fh) \/ Write(fh) \/ Readdir(fh)
          \/ Release(fh) \/ Releasedir(fh)

(***************************************************************************)
(* Remote calls in a tracee                                                *)
(***************************************************************************)

\* Most regions left mapped in the tracee.
MaxMapped == 2

\* Register files the tracee can be stopped with.
TraceeRegs == {"r0", "r1"}

NoGuard == [regs |-> "none", rip_ins |-> "none"]

\* No operation on the tracee is in progress.
Idle ==
    [op |-> "none", phase |-> "idle", sys |-> "none", guard |-> NoGuard,
     entry |-> NoGuard, region |-> FALSE, addr |-> FALSE, result |-> "none"]

\* A guard that is forgotten instead of dropped.
ThreadGuardKeep(guard, now) == now

\* Drop for ThreadGuard: ptrace::write(regs.rip, rip_ins) and
\* ptrace::setregs(regs) put back what protect() saved.
ThreadGuardDrop(guard, now) == guard

OnlyTracee == UNCHANGED <<lifeVars, enable_injection, ptVars, fsVars, injVars, fdVars, extVars>>

\* The operation returns res to its caller.
Finish(c, res) == [c EXCEPT !.phase = "done", !.sys = "none", !.guard = NoGuard, !.result = res]

\* What with_mmap, chdir and run_codes do when the part they are in returns
\* res: `?` returns an Err at once, otherwise the next part starts.  addr
\* tells that mmap returned the address of a region it mapped.
Proceed(c, res) ==
    IF c.phase = "raw" \/ c.phase = "munmap" \/ res = "Err" THEN Finish(c, res)
    ELSE IF c.phase = "mmap"
         THEN IF c.op = "chdir"
              THEN [c EXCEPT !.phase = "write_mem", !.sys = "none", !.guard = NoGuard,
                             !.addr = c.region, !.result = "none"]
              ELSE [c EXCEPT !.phase = "codes", !.sys = "protect", !.guard = NoGuard,
                             !.addr = c.region, !.result = "none"]
         ELSE [c EXCEPT !.phase = "munmap", !.sys = "protect", !.guard = NoGuard, !.result = "none"]

\* The closure of with_protect ends with res; the guard is dropped next.
Closure(c, res) == [c EXCEPT !.sys = "drop", !.result = res]

\* syscall(id, args), chdir(path) or run_codes(codes) is called on a stopped
\* tracee.  run_codes first reads the registers and generates the code.
Begin(o) ==
    /\ remote.phase \in {"idle", "done"}
    /\ mapped < MaxMapped
    /\ LET c == [Idle EXCEPT !.op = o, !.entry = [regs |-> regs, rip_ins |-> rip_ins]]
       IN \/ remote' = [c EXCEPT !.phase = IF o = "syscall" THEN "raw" ELSE "mmap",
                               !.sys = "protect"]
          \/ o = "run_codes" /\ remote' = Finish(c, "Err")
    /\ UNCHANGED <<regs, rip_ins, mapped>>
    /\ OnlyTracee

\* protect(): getregs and read of the word at RIP, kept in a ThreadGuard.
Protect ==
    /\ remote.sys = "protect"
    /\ \/ remote' = [remote EXCEPT !.guard = [regs |-> regs, rip_ins |-> rip_ins],
                               !.sys = IF remote.phase = "codes" THEN "write_mem" ELSE "setregs"]
       \/ remote' = Proceed(remote, "Err")
    /\ UNCHANGED <<regs, rip_ins, mapped>>
    /\ OnlyTracee

\* syscall: getregs, the id and arguments are set, setregs.
SyscallSetRegs ==
    /\ remote.sys = "setregs"
    /\ \/ regs' = "syscall" /\ remote' = [remote EXCEPT !.sys = "write"]
       \/ UNCHANGED regs /\ remote' = Closure(remote, "Err")
    /\ UNCHANGED <<rip_ins, mapped>>
    /\ OnlyTracee

\* syscall: ptrace::write(rip, 0x050f).
SyscallWrite ==
    /\ remote.sys = "write"
    /\ \/ rip_ins' = "0x050f" /\ remote' = [remote EXCEPT !.sys = "step"]
       \/ UNCHANGED rip_ins /\ remote' = Closure(remote, "Err")
    /\ UNCHANGED <<regs, mapped>>
    /\ OnlyTracee

\* syscall: ptrace::step and waitpid until SIGTRAP, then getregs for rax.
\* Once the step is taken the kernel has run the call: mmap may map a
\* region, munmap unmaps the region of this with_mmap.
SyscallStep ==
    /\ remote.sys = "step"
    /\ \/ /\ remote' = Closure(remote, "Err")
          /\ UNCHANGED <<regs, mapped>>
       \/ /\ regs' = "after"
          /\ \E res \in {"Ok", "Err"} :
                IF remote.phase = "mmap"
                THEN \E got \in BOOLEAN :
                        /\ mapped' = IF got THEN mapped + 1 ELSE mapped
                        /\ remote' = Closure([remote EXCEPT !.region = got], res)
                ELSE IF remote.phase = "munmap" /\ remote.region
                THEN /\ mapped' = mapped - 1
                     /\ remote' = Closure([remote EXCEPT !.region = FALSE], res)
                ELSE /\ mapped' = mapped
                     /\ remote' = Closure(remote, res)
    /\ UNCHANGED rip_ins
    /\ OnlyTracee

\* chdir: process.write_mem(addr, path)? inside the closure of with_mmap.
ChdirWriteMem ==
    /\ remote.phase = "write_mem"
    /\ \/ remote' = [remote EXCEPT !.phase = "chdir", !.sys = "protect"]
       \/ remote' = Finish(remote, "Err")
    /\ UNCHANGED <<regs, rip_ins, mapped>>
    /\ OnlyTracee

\* run_codes: codes(addr)? and write_mem(addr, &ins)? under the guard.
CodesWriteMem ==
    /\ remote.sys = "write_mem"
    /\ \/ remote' = [remote EXCEPT !.sys = "setrip"]
       \/ remote' = Closure(remote, "Err")
    /\ UNCHANGED <<regs, rip_ins, mapped>>
    /\ OnlyTracee

\* run_codes: regs.rip = addr + offset; setregs.
CodesSetRip ==
    /\ remote.sys = "setrip"
    /\ \/ regs' = "codes" /\ remote' = [remote EXCEPT !.sys = "cont"]
       \/ UNCHANGED regs /\ remote' = Closure(remote, "Err")
    /\ UNCHANGED <<rip_ins, mapped>>
    /\ OnlyTracee

\* run_codes: ptrace::cont and waitpid until the code stops with SIGTRAP.
CodesRun ==
    /\ remote.sys = "cont"
    /\ \/ regs' = "after" /\ remote' = Closure(remote, "Ok")
       \/ regs' \in {regs, "after"} /\ remote' = Closure(remote, "Err")
    /\ UNCHANGED <<rip_ins, mapped>>
    /\ OnlyTracee

\* with_protect: the guard goes out of scope, after Ok and after Err alike.
\* Its drop unwraps both ptrace calls: when one fails the thread panics and
\* nothing returns.
DropGuard ==
    /\ remote.sys = "drop"
    /\ LET now == [regs |-> regs, rip_ins |-> rip_ins]
           back == ThreadGuardDrop(remote.guard, now)
       IN \/ /\ regs' = back.regs
             /\ rip_ins' = back.rip_ins
             /\ remote' = Proceed(remote, remote.result)
          \/ /\ rip_ins' \in {rip_ins, back.rip_ins}
             /\ UNCHANGED regs
             /\ remote' = [remote EXCEPT !.phase = "panicked", !.sys = "none"]
    /\ UNCHANGED mapped
    /\ OnlyTracee

\* The tracee is resumed and stopped again later, with other registers.
TraceeRuns ==
    /\ remote.phase \in {"idle", "done"}
    /\ regs' \in TraceeRegs
    /\ remote' = Idle
    /\ UNCHANGED <<rip_ins, mapped>>
    /\ OnlyTracee

InitTracee ==
    /\ regs = "r0"
    /\ rip_ins = "orig"
    /\ mapped = 0
    /\ remote = Idle

\* Operations of one TracedProcess on its tracee.
NextTracee ==
    \/ \E o \in {"syscall", "chdir", "run_codes"} : Begin(o)
    \/ Protect \/ SyscallSetRegs \/ SyscallWrite \/ SyscallStep
    \/ ChdirWriteMem \/ CodesWriteMem \/ CodesSetRip \/ CodesRun
    \/ DropGuard \/ TraceeRuns

(***************************************************************************)
(* Descriptor replacer                                                     *)
(***************************************************************************)

\* Descriptor numbers of the target process.
MaxFd == 3

\* Largest file offset.
MaxPos == 2

Fds == 1..MaxFd

\* A negative rax: the system call failed.
Failed == 0 - 1

Closed == [path |-> <<"none", "none">>, pos |-> 0, flags |-> "none"]

\* Directories: the one the replacer looks for, the one it rewrites to, and
\* one it leaves alone.
DetectPath == "detect"
NewPath == "new"
TargetPaths == {<<DetectPath, "a">>, <<"other", "a">>}

StatusFlags == {"O_RDWR", "O_RDWR|O_APPEND"}

IsOpen(t, fd) == fd \in Fds /\ t[fd] # Closed

\* fcntl(fd, F_GETFL, 0): the status flags of the descriptor.
Fcntl(t, fd) == IF IsOpen(t, fd) THEN t[fd].flags ELSE "EBADF"

\* open(path, flags, 0): the lowest free number, at offset 0; it fails when
\* the path cannot be opened, flags is no flag word or no number is free.
Open2(t, path, flags, ok) ==
    LET free == {fd \in Fds : t[fd] = Closed}
    IN IF ok /\ flags \in StatusFlags /\ free # {}
       THEN LET fd == CHOOSE f \in free : \A g \in free : f <= g
            IN [table |-> [t EXCEPT ![fd] = [path |-> path, pos |-> 0, flags |-> flags]],
                rax |-> fd]
       ELSE [table |-> t, rax |-> Failed]

\* lseek(fd, 0, SEEK_CUR): the offset of the descriptor.
LseekCur(t, fd) == IF IsOpen(t, fd) THEN t[fd].pos ELSE Failed

\* An lseek that leaves the offset alone.
LseekSetNone(t, fd, pos) == t

\* lseek(fd, pos, SEEK_SET).
LseekSet(t, fd, pos) ==
    IF IsOpen(t, fd) /\ pos >= 0 THEN [t EXCEPT ![fd].pos = pos] ELSE t

\* dup2(oldfd, newfd): newfd refers to the open file of oldfd.
Dup2(t, oldfd, newfd) ==
    IF IsOpen(t, oldfd) /\ newfd \in Fds THEN [t EXCEPT ![newfd] = t[oldfd]] ELSE t

\* close(fd).
Close(t, fd) == IF IsOpen(t, fd) THEN [t EXCEPT ![fd] = Closed] ELSE t

\* The code between ->start and ->end for one ReplaceCase: fcntl, open,
\* lseek, lseek, dup2, close, with the new descriptor kept in r12.
Replace(t, case, ok) ==
    LET flags == Fcntl(t, case.fd)
        opened == Open2(t, case.new_path, flags, ok)
        r12 == opened.rax
        pos == LseekCur(opened.table, case.fd)
        moved == LseekSet(opened.table, r12, pos)
    IN Close(Dup2(moved, r12, case.fd), r12)

\* FdReplacer::prepare: the descriptors whose path starts with detect_path,
\* in the order of /proc/<pid>/fd, each with new_path.join(stripped_path).
Cases(t) ==
    LET found == {fd \in Fds : IsOpen(t, fd) /\ t[fd].path[1] = DetectPath}
    IN [i \in 1..Cardinality(found) |->
           LET fd == CHOOSE f \in found : Cardinality({g \in found : g < f}) = i - 1
           IN [fd |-> fd, new_path |-> <<NewPath, t[fd].path[2]>>]]

\* What open left in r12 for one ReplaceCase; no instruction between the
\* open and ->end tests it.
R12(t, case, ok) == Open2(t, case.new_path, Fcntl(t, case.fd), ok).rax

NoAccessor ==
    [pc |-> "idle", cases |-> << >>, next |-> 1, before |-> [fd \in Fds |-> Closed],
     r12 |-> << >>]

OnlyFd == UNCHANGED <<lifeVars, enable_injection, ptVars, fsVars, injVars, trVars, extVars>>

\* The target opens a file.
TargetOpen(path, flags) ==
    /\ accessor.pc = "idle"
    /\ Open2(fd_table, path, flags, TRUE).rax # Failed
    /\ fd_table' = Open2(fd_table, path, flags, TRUE).table
    /\ UNCHANGED accessor
    /\ OnlyFd

\* The target reads, writes or seeks.
TargetSeek(fd, pos) ==
    /\ accessor.pc = "idle"
    /\ IsOpen(fd_table, fd)
    /\ fd_table' = [fd_table EXCEPT ![fd].pos = pos]
    /\ UNCHANGED accessor
    /\ OnlyFd

\* The target closes a descriptor.
TargetClose(fd) ==
    /\ accessor.pc = "idle"
    /\ IsOpen(fd_table, fd)
    /\ fd_table' = Close(fd_table, fd)
    /\ UNCHANGED accessor
    /\ OnlyFd

\* FdReplacer::prepare: the process is traced, which stops it, and an
\* accessor is built for a process that has a descriptor to rewrite.
Prepare ==
    /\ accessor.pc = "idle"
    /\ Cases(fd_table) # << >>
    /\ accessor' = [pc |-> "prepared", cases |-> Cases(fd_table), next |-> 1, before |-> fd_table,
                    r12 |-> << >>]
    /\ UNCHANGED fd_table
    /\ OnlyFd

\* ProcessAccessor::run: the injected code handles the next case; after the
\* last one it stops at int3 and run_codes returns.
RunCase ==
    /\ accessor.pc \in {"prepared", "running"}
    /\ \E ok \in BOOLEAN :
          LET case == accessor.cases[accessor.next]
          IN /\ fd_table' = Replace(fd_table, case, ok)
             /\ accessor' = [accessor EXCEPT
                                !.next = @ + 1,
                                !.r12 = Append(@, R12(fd_table, case, ok)),
                                !.pc = IF accessor.next = Len(accessor.cases)
                                       THEN "done" ELSE "running"]
    /\ OnlyFd

\* ProcessAccessor::run: run_codes returns Err before the code has run.
RunFails ==
    /\ accessor.pc = "prepared"
    /\ accessor' = [accessor EXCEPT !.pc = "failed"]
    /\ UNCHANGED fd_table
    /\ OnlyFd

\* The replacer is dropped: the process is detached and runs again.
DropAccessor ==
    /\ accessor.pc \in {"done", "failed"}
    /\ accessor' = NoAccessor
    /\ UNCHANGED fd_table
    /\ OnlyFd

InitFd ==
    /\ fd_table = [fd \in Fds |-> Closed]
    /\ accessor = NoAccessor

\* One target process and the FdReplacer.
NextFd ==
    \/ \E path \in TargetPaths, flags \in StatusFlags : TargetOpen(path, flags)
    \/ \E fd \in Fds, pos \in 0..MaxPos : TargetSeek(fd, pos)
    \/ \E fd \in Fds : TargetClose(fd)
    \/ Prepare \/ RunCase \/ RunFails \/ DropAccessor

(***************************************************************************)
(* Replacers over all processes                                            *)
(***************************************************************************)

\* The three replacers, in the order UnionReplacer::prepare pushes them.
Kinds == <<"fd", "cwd", "mmap">>

\* Working directories of a process: detect_path, a directory below it, and
\* one elsewhere.
Cwds == {<<DetectPath, "">>, <<DetectPath, "sub">>, <<"other", "">>}

\* What the descriptors and the maps of a process refer to.
Refs == {"none", DetectPath}

TargetStates == [cwd : Cwds, fd : Refs, map : Refs]

\* Path::starts_with, by components.
StartsWith(path, dir) == path[1] = dir

\* prepare of one replacer: the processes it keeps are the traced ones that
\* have an object below detect_path.
Holds(kind, t, traced) ==
    {p \in traced :
        CASE kind = "fd" -> t[p].fd = DetectPath
          [] kind = "cwd" -> StartsWith(t[p].cwd, DetectPath)
          [] kind = "mmap" -> t[p].map = DetectPath}

\* UnionReplacer::prepare: a replacer whose prepare returned Err is logged
\* and left out.
Prepared(t, built, traced) ==
    LET kept == SelectSeq(Kinds, LAMBDA kind : kind \in built)
    IN [i \in 1..Len(kept) |-> [kind |-> kept[i], left |-> Holds(kept[i], t, traced)]]

\* The pairs of a replacer and a process in a list of replacers.
Pairs(list) == UNION {{list[i].kind} \X list[i].left : i \in DOMAIN list}

\* The replacers still to run: the loop of a replacer with no process left
\* ends and UnionReplacer::run moves to the next one.
RECURSIVE Pending(_)
Pending(list) ==
    IF list = << >> THEN << >>
    ELSE IF Head(list).left = {} THEN Pending(Tail(list)) ELSE list

\* What a successful rewrite does to the process: the descriptors and maps
\* are reopened below new_path; chdir is given self.new_path.
Rewrite(kind, target) ==
    CASE kind = "fd" -> [target EXCEPT !.fd = NewPath]
      [] kind = "cwd" -> [target EXCEPT !.cwd = <<NewPath, "">>]
      [] kind = "mmap" -> [target EXCEPT !.map = NewPath]

NoReplacers ==
    [pc |-> "idle", list |-> << >>, prepared |-> {}, tried |-> {}, done |-> {},
     result |-> "none", before |-> [p \in Pids |-> [cwd |-> <<"other", "">>, fd |-> "none", map |-> "none"]]]

OnlyRepl == UNCHANGED <<coreVars, msVars, rpcVars, ddVars, attr_reply, lateVars>>

\* A process changes directory, opens or closes files, maps or unmaps them.
TargetChanges(p, t) ==
    /\ replacers.pc = "idle"
    /\ targets[p] # t
    /\ targets' = [targets EXCEPT ![p] = t]
    /\ UNCHANGED replacers
    /\ OnlyRepl

\* UnionReplacer::prepare(detect_path, new_path).
UnionPrepare(built, traced) ==
    /\ replacers.pc = "idle"
    /\ replacers' = [pc |-> "prepared",
                     list |-> Prepared(targets, built, traced),
                     prepared |-> Pairs(Prepared(targets, built, traced)),
                     tried |-> {}, done |-> {}, result |-> "none",
                     before |-> targets]
    /\ UNCHANGED targets
    /\ OnlyRepl

\* One pass of the loop of the replacer that UnionReplacer::run is in:
\* accessor.run()? or process.chdir(..)? on one process. An Err leaves both
\* loops through the two question marks.
ReplacerRun(p, ok) ==
    /\ replacers.pc \in {"prepared", "running"}
    /\ Pending(replacers.list) # << >>
    /\ LET list == Pending(replacers.list)
           kind == list[1].kind
       IN /\ p \in list[1].left
          /\ IF ok
             THEN /\ targets' = [targets EXCEPT ![p] = Rewrite(kind, @)]
                  /\ replacers' = [replacers EXCEPT
                                     !.pc = "running",
                                     !.list = [list EXCEPT ![1].left = @ \ {p}],
                                     !.tried = @ \cup {<<kind, p>>},
                                     !.done = @ \cup {<<kind, p>>}]
             ELSE /\ replacers' = [replacers EXCEPT
                                     !.pc = "returned",
                                     !.list = list,
                                     !.tried = @ \cup {<<kind, p>>},
                                     !.result = "Err"]
                  /\ UNCHANGED targets
    /\ OnlyRepl

\* UnionReplacer::run: every loop has ended; Ok(()).
RunReturnsOk ==
    /\ replacers.pc \in {"prepared", "running"}
    /\ Pending(replacers.list) = << >>
    /\ replacers' = [replacers EXCEPT !.pc = "returned", !.list = << >>, !.result = "Ok"]
    /\ UNCHANGED targets
    /\ OnlyRepl

\* drop(replacer): the processes are detached.
DropReplacers ==
    /\ replacers.pc = "returned"
    /\ replacers' = NoReplacers
    /\ UNCHANGED targets
    /\ OnlyRepl

InitRepl ==
    /\ targets = [p \in Pids |-> [cwd |-> <<"other", "">>, fd |-> "none", map |-> "none"]]
    /\ replacers = NoReplacers

NextRepl ==
    \/ \E p \in Pids, t \in TargetStates : TargetChanges(p, t)
    \/ \E built \in SUBSET {"fd", "cwd", "mmap"}, traced \in SUBSET Pids :
          UnionPrepare(built, traced)
    \/ \E p \in Pids, ok \in BOOLEAN : ReplacerRun(p, ok)
    \/ RunReturnsOk
    \/ DropReplacers

(***************************************************************************)
(* Moving the directory aside                                              *)
(***************************************************************************)

\* original_path /a/b and new_path /a/__chaosfs__b__ of create_injection.
OriginalPath == <<"a", "b">>
ShadowPath == <<"a", "__chaosfs__b__">>

\* Paths that can be mount points of the target's namespace: /, /a and the
\* two above.
MountPaths == {<< >>, <<"a">>, OriginalPath, ShadowPath}

\* Path::starts_with over components.
IsPrefix(dir, path) ==
    /\ Len(dir) <= Len(path)
    /\ \A i \in 1..Len(dir) : dir[i] = path[i]

\* MountsInfo::non_root: some listed mount point is a prefix of the path.
non_root(mounts, path) == \E mount_point \in mounts : IsPrefix(mount_point, path)

\* mount(2) with MS_MOVE: the source must be a mount point; the kernel may
\* refuse for another reason (a shared parent mount).
CanMove(mounts, source, allowed) == source \in mounts /\ allowed

\* MountsInfo::move_mount: create_dir_all(target), then the MS_MOVE.
move_mount(mounts, source, target, allowed) ==
    IF CanMove(mounts, source, allowed)
    THEN [mounts |-> (mounts \ {source}) \cup {target}, res |-> "Ok"]
    ELSE [mounts |-> mounts, res |-> "Err"]

\* The closure of the first subprocess of mount(), and of the last one of
\* recover_mount(): which operation was used and what it returned.
SwapClosure(mounts, source, target, allowed) ==
    IF non_root(mounts, source)
    THEN [style |-> "move", mounts |-> move_mount(mounts, source, target, allowed).mounts,
          res |-> move_mount(mounts, source, target, allowed).res]
    ELSE [style |-> "none", mounts |-> mounts, res |-> "Err"]

\* Attempts of umount that are told apart.
MaxTries == 2

NoSwap == [pc |-> "idle", aside |-> "none", aside_res |-> "none",
           back |-> "none", back_res |-> "none",
           fuse |-> FALSE, busy |-> FALSE, tries |-> 0]

OnlySwap == UNCHANGED <<coreVars, rpVars, rpcVars, ddVars, attr_reply, lateVars>>

\* The mount table of the target changes while toda is not running.
MountChanges(path) ==
    /\ mount_swap.pc = "idle"
    /\ path # ShadowPath
    /\ mount_points' = IF path \in mount_points
                       THEN mount_points \ {path} ELSE mount_points \cup {path}
    /\ UNCHANGED <<tree, mount_swap>>
    /\ OnlySwap

\* MountInjector::mount up to the first join()?: the closure's Result is
\* inside the Ok that join() returns and is not looked at.
MountAside(allowed) ==
    /\ mount_swap.pc = "idle"
    /\ LET did == SwapClosure(mount_points, OriginalPath, ShadowPath, allowed)
       IN /\ mount_points' = did.mounts
          /\ tree' = IF did.res = "Ok" THEN "shadow" ELSE tree
          /\ mount_swap' = [mount_swap EXCEPT !.pc = "aside", !.aside = did.style,
                                              !.aside_res = did.res]
    /\ OnlySwap

\* with_mnt_pid_namespace(..)? or join()? fails: mount() returns the error.
MountAsideFails ==
    /\ mount_swap.pc = "idle"
    /\ mount_swap' = [mount_swap EXCEPT !.pc = "failed"]
    /\ UNCHANGED <<mount_points, tree>>
    /\ OnlySwap

\* The rest of mount(): the FUSE filesystem is mounted at original_path and
\* the guard is returned.
MountServes ==
    /\ mount_swap.pc = "aside"
    /\ mount_swap' = [mount_swap EXCEPT !.pc = "serving", !.fuse = TRUE]
    /\ UNCHANGED <<mount_points, tree>>
    /\ OnlySwap

\* A process of the target opens a file of the mounted filesystem, or
\* closes the last one it held.
BusyChanges ==
    /\ mount_swap.fuse
    /\ mount_swap' = [mount_swap EXCEPT !.busy = ~@]
    /\ UNCHANGED <<mount_points, tree>>
    /\ OnlySwap

\* resume() calls recover_mount().
RecoverMount ==
    /\ mount_swap.pc = "serving"
    /\ mount_swap' = [mount_swap EXCEPT !.pc = "umount", !.tries = 0]
    /\ UNCHANGED <<mount_points, tree>>
    /\ OnlySwap

\* One pass of `loop { if let Err(err) = umount(..) { info!(..) } else
\* { return Ok(()) } }`: EBUSY goes round again at once.
UmountTry ==
    /\ mount_swap.pc = "umount"
    /\ mount_swap' = IF mount_swap.busy
                     THEN [mount_swap EXCEPT
                             !.tries = IF @ < MaxTries THEN @ + 1 ELSE @]
                     ELSE [mount_swap EXCEPT !.pc = "unmounted", !.fuse = FALSE]
    /\ UNCHANGED <<mount_points, tree>>
    /\ OnlySwap

\* recover_mount after the umount and the join of the FUSE subprocess: the
\* closure that moves new_path back, its Result not looked at either.
RecoverBack(allowed) ==
    /\ mount_swap.pc = "unmounted"
    /\ LET did == SwapClosure(mount_points, ShadowPath, OriginalPath, allowed)
       IN /\ mount_points' = did.mounts
          /\ tree' = IF did.res = "Ok" THEN "orig" ELSE tree
          /\ mount_swap' = [mount_swap EXCEPT !.pc = "recovered", !.back = did.style,
                                              !.back_res = did.res]
    /\ OnlySwap

\* toda exits; the directory is wherever the run left it.
SwapExit ==
    /\ mount_swap.pc \in {"recovered", "failed"}
    /\ mount_swap' = NoSwap
    /\ UNCHANGED <<mount_points, tree>>
    /\ OnlySwap

InitSwap ==
    /\ mount_points = {<< >>}
    /\ tree = "orig"
    /\ mount_swap = NoSwap

\* The steps of toda itself.
SwapSteps ==
    \/ \E allowed \in BOOLEAN : MountAside(allowed)
    \/ MountAsideFails
    \/ MountServes
    \/ RecoverMount
    \/ UmountTry
    \/ \E allowed \in BOOLEAN : RecoverBack(allowed)
    \/ SwapExit

NextSwap ==
    \/ \E path \in MountPaths : MountChanges(path)
    \/ BusyChanges
    \/ \E allowed \in BOOLEAN : MountAside(allowed)
    \/ MountAsideFails
    \/ MountServes
    \/ RecoverMount
    \/ UmountTry
    \/ \E allowed \in BOOLEAN : RecoverBack(allowed)
    \/ SwapExit

(***************************************************************************)
(* Control surface                                                         *)
(***************************************************************************)

\* Shutdown tokens the channel is followed for.
MaxTokens == 2

\* e.to_string() of the error held in status.
StatusText == "Not good"

\* Bodies of a PUT /update: whether serde_json::from_slice accepts it,
\* whether every Filter::build of the configuration succeeds, and the
\* configuration it holds.
Bodies == [parses : BOOLEAN, builds : BOOLEAN, conf : Configs]

\* A get_status that sends nothing.
get_status_quiet(st) ==
    [body |-> IF st = "Ok" THEN "ok" ELSE StatusText, send |-> 0]

\* TodaRpc::get_status: the text returned and the tokens sent.
get_status(st) ==
    IF st = "Ok" THEN [body |-> "ok", send |-> 0]
    ELSE [body |-> StatusText, send |-> 1]

\* An update that does not look at status.
update_unchecked(st, list, body) ==
    IF ~body.builds THEN [body |-> "build error", injector |-> list, swapped |-> FALSE]
    ELSE [body |-> "ok", injector |-> MultiInjectorBuild(body.conf), swapped |-> TRUE]

\* TodaRpc::update: the text returned and the list installed afterwards.
update(st, list, body) ==
    IF st # "Ok" THEN [body |-> StatusText, injector |-> list, swapped |-> FALSE]
    ELSE IF ~body.builds THEN [body |-> "build error", injector |-> list, swapped |-> FALSE]
    ELSE [body |-> "ok", injector |-> MultiInjectorBuild(body.conf), swapped |-> TRUE]

NoResponse == [uri |-> "none", code |-> 0, body |-> ""]

OnlyRpc ==
    UNCHANGED <<lifeVars, enable_injection, ptVars, fsVars, request, trVars, fdVars,
                rpVars, msVars, ddVars, attr_reply, lateVars>>

\* TodaRpc::new(status, tx, hookfs) with the Result of the setup.
TodaRpcNew(st) ==
    /\ status = "none"
    /\ status' = st
    /\ UNCHANGED <<tx, response, injector, cancel_token>>
    /\ OnlyRpc

\* TodaService::handle of a request that is not a PUT.
HandleNotPut ==
    /\ status # "none"
    /\ response' = [uri |-> "any", code |-> 405, body |-> ""]
    /\ UNCHANGED <<status, tx, injector, cancel_token>>
    /\ OnlyRpc

\* TodaService::handle of a PUT to another path.
HandleNotFound ==
    /\ status # "none"
    /\ response' = [uri |-> "other", code |-> 404, body |-> ""]
    /\ UNCHANGED <<status, tx, injector, cancel_token>>
    /\ OnlyRpc

\* TodaService::handle of PUT /get_status.
HandleGetStatus ==
    /\ status # "none"
    /\ tx + get_status(status).send <= MaxTokens
    /\ tx' = tx + get_status(status).send
    /\ response' = [uri |-> "/get_status", code |-> 200, body |-> get_status(status).body]
    /\ UNCHANGED <<status, injector, cancel_token>>
    /\ OnlyRpc

\* TodaService::handle of PUT /update: read_config, then TodaRpc::update.
HandleUpdate(body) ==
    /\ status # "none"
    /\ IF ~body.parses
       THEN /\ response' = [uri |-> "/update", code |-> 400, body |-> "parse error"]
            /\ UNCHANGED <<injector, cancel_token>>
       ELSE LET did == update(status, injector, body)
            IN /\ response' = [uri |-> "/update", code |-> 200, body |-> did.body]
               /\ injector' = did.injector
               /\ cancel_token' = IF did.swapped THEN {} ELSE cancel_token
    /\ UNCHANGED <<status, tx>>
    /\ OnlyRpc

InitRpc ==
    /\ status = "none"
    /\ tx = 0
    /\ response = NoResponse

NextRpc ==
    \/ \E st \in {"Ok", "Err"} : TodaRpcNew(st)
    \/ HandleNotPut
    \/ HandleNotFound
    \/ HandleGetStatus
    \/ \E body \in Bodies : HandleUpdate(body)

(***************************************************************************)
(* Reading a directory                                                     *)
(***************************************************************************)

\* Names a directory can hold.
EntryNames == {"a", "b", "c"}

\* Most entries one reply buffer takes before reply.add reports it full.
MaxReply == 2

\* Directory contents: sequences of distinct names.
Listings ==
    {l \in UNION {[1..n -> EntryNames] : n \in 0..Cardinality(EntryNames)} :
        \A i, j \in DOMAIN l : i # j => l[i] # l[j]}

\* l with name put at position at.
InsertAt(l, at, name) ==
    [i \in 1..(Len(l) + 1) |-> IF i < at THEN l[i] ELSE IF i = at THEN name ELSE l[i - 1]]

\* l without name.
Without(l, name) == SelectSeq(l, LAMBDA n : n # name)

\* dir.iter().collect(): nix's Iter reads the stream to its end and rewinds
\* it when dropped, so each call lists the directory as it is now.
AllEntries(listing) == listing

\* The loop over all_entries.iter().enumerate().skip(offset): the entries
\* added to the reply until it is full, each with offset index + 1.
ReplyEntries(all_entries, offset, room) ==
    IF offset >= Len(all_entries) THEN << >>
    ELSE LET n == IF Len(all_entries) - offset < room
                  THEN Len(all_entries) - offset ELSE room
         IN [i \in 1..n |-> [name |-> all_entries[offset + i], offset |-> offset + i]]

NoReader == [open |-> FALSE, calls |-> 0, offset |-> 0, snapshot |-> << >>, got |-> << >>]

OnlyDir == UNCHANGED <<coreVars, rpVars, msVars, rpcVars, attr_reply, lateVars>>

\* A file is created in the host directory; where the new name shows up in
\* the listing is up to the host filesystem.
HostCreate(name, at) ==
    /\ name \notin {dir_listing[i] : i \in DOMAIN dir_listing}
    /\ at \in 1..(Len(dir_listing) + 1)
    /\ dir_listing' = InsertAt(dir_listing, at, name)
    /\ UNCHANGED dir_reader
    /\ OnlyDir

\* A file of the host directory is removed.
HostRemove(name) ==
    /\ name \in {dir_listing[i] : i \in DOMAIN dir_listing}
    /\ dir_listing' = Without(dir_listing, name)
    /\ UNCHANGED dir_reader
    /\ OnlyDir

\* opendir: a new handle.
DirOpen ==
    /\ ~dir_reader.open
    /\ dir_reader' = [NoReader EXCEPT !.open = TRUE]
    /\ UNCHANGED dir_listing
    /\ OnlyDir

\* readdir(fh, offset) with the offset the kernel holds for the handle: 0,
\* then the offset of the last entry it was given.
DirRead(room) ==
    /\ dir_reader.open
    /\ LET snapshot == IF dir_reader.calls = 0 THEN dir_listing ELSE dir_reader.snapshot
           reply == ReplyEntries(AllEntries(dir_listing), dir_reader.offset, room)
       IN dir_reader' = [dir_reader EXCEPT
                           !.calls = IF @ = 0 THEN 1 ELSE @,
                           !.snapshot = snapshot,
                           !.offset = IF reply = << >> THEN @ ELSE reply[Len(reply)].offset,
                           !.got = @ \o [i \in DOMAIN reply |-> reply[i].name]]
    /\ UNCHANGED dir_listing
    /\ OnlyDir

\* releasedir.
DirRelease ==
    /\ dir_reader.open
    /\ dir_reader' = NoReader
    /\ UNCHANGED dir_listing
    /\ OnlyDir

InitDir ==
    /\ dir_listing = << >>
    /\ dir_reader = NoReader

NextDir ==
    \/ \E name \in EntryNames, at \in 1..Cardinality(EntryNames) : HostCreate(name, at)
    \/ \E name \in EntryNames : HostRemove(name)
    \/ DirOpen
    \/ \E room \in 1..MaxReply : DirRead(room)
    \/ DirRelease

(***************************************************************************)
(* Attributes of an open file                                              *)
(***************************************************************************)

NoAttr == [ino |-> 0, res |-> "none", nlink |-> 0]

\* st_nlink of a host inode: the names that link it.
Nlink(ino) == Cardinality({n \in Names : host[n] = ino})

\* getattr: inject_with_ino!, then inode_map.get_path(ino)?, then
\* get_file_attr(path), which is lstat(path).
Getattr(ino) ==
    LET path == GetPath(inode_map, ino)
        found == Lstat(path)
    IN  /\ \/ /\ enable_injection
              /\ path /= NoPath
              /\ attr_reply' = [ino |-> ino, res |-> "InjectedFault", nlink |-> 0]
           \/ attr_reply' =
                  IF path = NoPath THEN [ino |-> ino, res |-> "InodeNotFound", nlink |-> 0]
                  ELSE IF found = 0 THEN [ino |-> ino, res |-> "ENOENT", nlink |-> 0]
                  ELSE [ino |-> ino, res |-> "Ok", nlink |-> Nlink(found)]
        /\ UNCHANGED <<lifeVars, ptVars, enable_injection, fsVars, injVars, trVars, fdVars>>
        /\ UNCHANGED <<rpVars, msVars, rpcVars, ddVars, lateVars>>

InitAttr == attr_reply = NoAttr

\* Files of the mounted directory are created, opened, read, unlinked and
\* released, and their attributes asked for.
NextAttr ==
    \/ \E name \in Names : Create(RootIno, name) \/ Unlink(RootIno, name)
    \/ \E ino \in Inos : Open(ino) \/ Getattr(ino)
    \/ \E fh \in Fhs : Read(fh) \/ Release(fh)

(***************************************************************************)
(* The locks of HookFs                                                     *)
(***************************************************************************)

\* HookFs.inode_map, HookFs.opened_files and HookFs.injector are tokio
\* RwLocks.
RwLocks == {"inode_map", "opened_files", "injector"}

MaxWorkers == 2
Workers == 1..MaxWorkers

\* One step of a handler: take a lock, drop a guard, or a host call that is
\* awaited. flag marks the steps under `if enable_injection`.
St(k, lock, m, flag) == [k |-> k, l |-> lock, m |-> m, flag |-> flag]
Acq(lock, m) == <<St("acq", lock, m, FALSE)>>
Rel(lock) == <<St("rel", lock, "none", FALSE)>>
Io(m) == <<St("io", "none", m, FALSE)>>

\* inject!, inject_attr!, inject_reply!: the read guard of the injector is a
\* temporary of the statement, taken when injection is enabled.
InjectMacro == <<St("acq", "injector", "read", TRUE), St("rel", "injector", "none", TRUE)>>

\* inject_with_ino!, inject_with_parent_and_name!
InjectWithIno == Acq("inode_map", "read") \o Rel("inode_map") \o InjectMacro

\* inject_with_fh!
InjectWithFh == Acq("opened_files", "read") \o Rel("opened_files") \o InjectMacro

\* inject_write_data!: opened_files is held to the end of the macro's block
\* and the injector is read without a look at enable_injection.
InjectWriteData ==
    Acq("opened_files", "read") \o Acq("injector", "read") \o Rel("injector")
        \o Rel("opened_files")

\* The same macro with the two locks taken in the other order.
InjectWriteDataSwapped ==
    Acq("injector", "read") \o Acq("opened_files", "read") \o Rel("opened_files")
        \o Rel("injector")

Handlers == {"create", "open", "mknod", "read", "write", "release", "update", "interrupt"}

\* The lock operations of each handler, in program order. Guards that live
\* to the end of the function are dropped by the return.
ProgramWith(kind, write_data) ==
    CASE kind = "create" ->
             InjectWithIno \o Acq("inode_map", "write") \o Io("open") \o InjectMacro
                 \o Acq("opened_files", "write") \o Rel("opened_files") \o InjectMacro
      [] kind = "open" ->
             InjectWithIno \o Acq("inode_map", "read") \o Io("open")
                 \o Acq("opened_files", "write") \o Rel("opened_files") \o InjectMacro
      [] kind = "mknod" ->
             InjectWithIno \o Acq("inode_map", "write") \o InjectMacro \o Io("mknod")
                 \o InjectMacro \o InjectMacro
      [] kind = "read" ->
             InjectWithFh \o Acq("opened_files", "read") \o Io("read") \o InjectMacro
      [] kind = "write" ->
             InjectWithFh \o write_data \o Acq("opened_files", "read") \o Io("write")
                 \o InjectMacro
      [] kind = "release" ->
             Acq("opened_files", "write") \o Io("close")
      [] kind = "update" ->
             Acq("injector", "write") \o Rel("injector")
      [] kind = "interrupt" ->
             Acq("injector", "read") \o Rel("injector")

ProgramSwapped(kind) == ProgramWith(kind, InjectWriteDataSwapped)

Program(kind) == ProgramWith(kind, InjectWriteData)

Idle2 == [kind |-> "idle", pc |-> 0, fh |-> 0, waiting |-> FALSE]
Unlocked == [writer |-> 0, readers |-> {}, queue |-> << >>]

AtEnd(w) == worker[w].kind /= "idle" /\ worker[w].pc > Len(Program(worker[w].kind))

\* The step a running task is at.
StepOf(w) == Program(worker[w].kind)[worker[w].pc]

Running(w) == worker[w].kind /= "idle" /\ ~AtEnd(w)

\* The step is compiled out of this run: injection is disabled.
Skipped(w) == StepOf(w).flag /\ ~enable_injection

\* The locks task w holds a guard of.
Held(w) == {lock \in RwLocks : rwlock[lock].writer = w \/ w \in rwlock[lock].readers}

\* Every guard of w is dropped.
DropAll(locks, w) ==
    [lock \in RwLocks |->
        [locks[lock] EXCEPT !.writer = IF @ = w THEN 0 ELSE @,
                            !.readers = @ \ {w}]]

\* tokio's RwLock hands the lock out in the order of the requests: the head
\* of the queue takes it once no guard in its way is left.
CanTake(lock, w) ==
    /\ rwlock[lock].queue /= << >>
    /\ Head(rwlock[lock].queue) = w
    /\ rwlock[lock].writer = 0
    /\ StepOf(w).m = "write" => rwlock[lock].readers = {}

OnlyLock == UNCHANGED <<coreVars, midVars, fuse_req, hsVars>>

\* spawn_reply: the dispatcher spawns the handler of one request as a task;
\* TodaRpc::update and HookFs::disable_injection run on threads of their own.
Dispatch(w, kind, fh) ==
    /\ worker[w].kind = "idle"
    /\ worker' = [worker EXCEPT ![w] = [kind |-> kind, pc |-> 1, fh |-> fh, waiting |-> FALSE]]
    /\ UNCHANGED rwlock
    /\ OnlyLock

\* lock.read().await / lock.write().await: the task joins the queue.
LockRequest(w) ==
    /\ Running(w)
    /\ ~worker[w].waiting
    /\ StepOf(w).k = "acq"
    /\ ~Skipped(w)
    /\ rwlock' = [rwlock EXCEPT ![StepOf(w).l].queue = Append(@, w)]
    /\ worker' = [worker EXCEPT ![w].waiting = TRUE]
    /\ OnlyLock

\* The await returns the guard.
LockGrant(w) ==
    /\ Running(w)
    /\ worker[w].waiting
    /\ CanTake(StepOf(w).l, w)
    /\ rwlock' = [rwlock EXCEPT ![StepOf(w).l] =
                      [queue |-> Tail(@.queue),
                       writer |-> IF StepOf(w).m = "write" THEN w ELSE @.writer,
                       readers |-> IF StepOf(w).m = "read" THEN @.readers \cup {w} ELSE @.readers]]
    /\ worker' = [worker EXCEPT ![w].waiting = FALSE, ![w].pc = @ + 1]
    /\ OnlyLock

\* `if self.enable_injection.load(..)` is false: the statement is passed.
LockSkip(w) ==
    /\ Running(w)
    /\ StepOf(w).k = "acq"
    /\ ~worker[w].waiting
    /\ Skipped(w)
    /\ worker' = [worker EXCEPT ![w].pc = @ + 1]
    /\ UNCHANGED rwlock
    /\ OnlyLock

\* drop(guard), or the end of the statement that holds a temporary guard.
LockRelease(w) ==
    /\ Running(w)
    /\ StepOf(w).k = "rel"
    /\ rwlock' = [rwlock EXCEPT ![StepOf(w).l] =
                      [@ EXCEPT !.writer = IF @ = w THEN 0 ELSE @, !.readers = @ \ {w}]]
    /\ worker' = [worker EXCEPT ![w].pc = @ + 1]
    /\ OnlyLock

\* The awaited host call of the handler returns Ok.
TaskIo(w) ==
    /\ Running(w)
    /\ StepOf(w).k = "io"
    /\ worker' = [worker EXCEPT ![w].pc = @ + 1]
    /\ UNCHANGED rwlock
    /\ OnlyLock

\* The host call returns an error and `?` leaves the handler: every guard
\* is dropped.
TaskIoFails(w) ==
    /\ Running(w)
    /\ StepOf(w).k = "io"
    /\ rwlock' = DropAll(rwlock, w)
    /\ worker' = [worker EXCEPT ![w] = Idle2]
    /\ OnlyLock

\* The handler returns: the guards still in scope are dropped.
TaskReturn(w) ==
    /\ AtEnd(w)
    /\ rwlock' = DropAll(rwlock, w)
    /\ worker' = [worker EXCEPT ![w] = Idle2]
    /\ OnlyLock

InitLock ==
    /\ rwlock = [lock \in RwLocks |-> Unlocked]
    /\ worker = [w \in Workers |-> Idle2]

\* Handlers run as concurrent tasks over the three locks.
NextLock ==
    \/ \E w \in Workers :
          \/ \E kind \in Handlers, fh \in Fhs : Dispatch(w, kind, fh)
          \/ LockRequest(w) \/ LockGrant(w) \/ LockSkip(w) \/ LockRelease(w)
          \/ TaskIo(w) \/ TaskIoFails(w) \/ TaskReturn(w)
    \/ EnableInjection

(***************************************************************************)
(* The dispatcher and the reply of a request                               *)
(***************************************************************************)

MaxReq == 2
ReqIds == 1..MaxReq

\* How the callback of a request is written: through spawn_reply (every
\* call but three), readdir with its own match, bmap with the sink handed
\* to the handler.
Callbacks == {"spawn_reply", "readdir", "bmap"}

NoReq == [cb |-> "none", task |-> "none", sink |-> "none", sent |-> << >>]

\* A reply method takes the sink by value (`fn reply(self, ..)`,
\* `fn error(self, ..)`): the sink is gone once it has sent.
Retained(sink) == sink
Consumed(sink) == "consumed"

\* FsReply::reply: reply_ok for Ok(item), reply_err for Err(err).
FsReplyReply(result) == IF result = "Ok" THEN "ok" ELSE "error"

\* The sink sends one reply and is consumed; a consumed sink sends nothing.
Send(r, what) ==
    IF r.sink = "held"
    THEN [r EXCEPT !.sent = Append(@, what), !.sink = Consumed(@)]
    ELSE r

OnlyReq == UNCHANGED <<coreVars, midVars, lkVars, hsVars>>

\* The callback of Filesystem: the future of the handler is spawned with the
\* sink moved into it.
Spawn(q, cb) ==
    /\ fuse_req[q] = NoReq
    /\ fuse_req' = [fuse_req EXCEPT ![q] =
                        [cb |-> cb, task |-> "running", sink |-> "held", sent |-> << >>]]
    /\ OnlyReq

\* The handler's future completes with a value or an error.
HandlerReturns(q, result) ==
    /\ fuse_req[q].task = "running"
    /\ fuse_req[q].cb /= "bmap"
    /\ fuse_req' = [fuse_req EXCEPT ![q].task = result]
    /\ OnlyReq

\* reply.reply(result) of spawn_reply; the match of the readdir callback.
SendReply(q) ==
    /\ fuse_req[q].task \in {"Ok", "Err"}
    /\ fuse_req' = [fuse_req EXCEPT ![q] =
                        [Send(@, FsReplyReply(@.task)) EXCEPT !.task = "replied"]]
    /\ OnlyReq

\* bmap: the handler itself calls reply.error(ENOSYS).
BmapReplies(q) ==
    /\ fuse_req[q].task = "running"
    /\ fuse_req[q].cb = "bmap"
    /\ fuse_req' = [fuse_req EXCEPT ![q] = [Send(@, "error") EXCEPT !.task = "replied"]]
    /\ OnlyReq

\* The handler panics (Slab::remove of a key that is not occupied): the
\* runtime catches the unwind and the future is dropped with the sink in it.
HandlerPanics(q) ==
    /\ fuse_req[q].task = "running"
    /\ fuse_req[q].cb = "spawn_reply"
    /\ fuse_req' = [fuse_req EXCEPT ![q].task = "panicked"]
    /\ OnlyReq

\* The task ends and what it owns is dropped; the Drop of a sink that was
\* not used sends EIO.
TaskEnds(q) ==
    /\ fuse_req[q].task \in {"replied", "panicked"}
    /\ fuse_req' = [fuse_req EXCEPT ![q] = [Send(@, "EIO") EXCEPT !.task = "finished"]]
    /\ OnlyReq

\* The kernel has its answer and the id is used for a later request.
Retire2(q) ==
    /\ fuse_req[q].task = "finished"
    /\ fuse_req' = [fuse_req EXCEPT ![q] = NoReq]
    /\ OnlyReq

InitReq == fuse_req = [q \in ReqIds |-> NoReq]

NextReq ==
    \E q \in ReqIds :
        \/ \E cb \in Callbacks : Spawn(q, cb)
        \/ \E result \in {"Ok", "Err"} : HandlerReturns(q, result)
        \/ SendReply(q)
        \/ BmapReplies(q)
        \/ HandlerPanics(q)
        \/ TaskEnds(q)
        \/ Retire2(q)

(***************************************************************************)
(* Stop::wait and Stop::wake on the Mutex and the Condvar                  *)
(***************************************************************************)

\* inject(): the host waits for before_mount, then in mount() for the guard
\* of the FUSE subprocess, and drops after_mount_guard; the replacer
\* subprocess drops before_mount_guard and waits for after_mount.
Parties == {"host", "sub", "fuse"}
SetupLocks == {"before_mount", "fuse_up", "after_mount"}

Waiter(l) == IF l = "after_mount" THEN "sub" ELSE "host"

\* Stop::new; no guard is dropped and no wait has returned.
NewCell == [inner |-> FALSE, mutex |-> "free", dropped |-> FALSE, waited |-> FALSE]

\* self.inner.lock() returns once no thread holds the Mutex.
MutexIgnored(c) == TRUE
MutexFree(c) == c.mutex = "free"

At(pc, on, then) == [pc |-> pc, on |-> on, then |-> then]

NewParties ==
    [t \in Parties |->
        IF t = "host" THEN At("wait", "before_mount", "mount")
        ELSE IF t = "sub" THEN At("prepare", "none", "none")
        ELSE At("unborn", "none", "none")]

OnlyStop == UNCHANGED <<coreVars, midVars, lkVars, fuse_req>>

\* The closure up to drop(before_mount_guard): canonicalize and prepare. An
\* error returns from the closure, which drops the guard it owns as well.
SubPrepares(ok) ==
    /\ party["sub"].pc = "prepare"
    /\ party' = [party EXCEPT !["sub"] =
                     At("wake", "before_mount", IF ok THEN "wait" ELSE "done")]
    /\ cells' = [cells EXCEPT !["before_mount"].dropped = TRUE]
    /\ OnlyStop

\* The subprocess goes on to after_mount_waiter.wait().
SubWaits ==
    /\ party["sub"].pc = "wait"
    /\ party["sub"].on = "before_mount"
    /\ party' = [party EXCEPT !["sub"] = At("wait", "after_mount", "run")]
    /\ UNCHANGED cells
    /\ OnlyStop

\* create_injection and mount up to with_mnt_pid_namespace: the FUSE
\* subprocess is cloned and the host waits for its guard, or a `?` returns
\* from inject() and drops after_mount_guard.
HostMounts(ok) ==
    /\ party["host"].pc = "mount"
    /\ IF ok
       THEN /\ party' = [party EXCEPT !["host"] = At("wait", "fuse_up", "drop"),
                                      !["fuse"] = At("setup", "none", "none")]
            /\ UNCHANGED cells
       ELSE /\ party' = [party EXCEPT !["host"] = At("wake", "after_mount", "done")]
            /\ cells' = [cells EXCEPT !["after_mount"].dropped = TRUE]
    /\ OnlyStop

\* The closure of mount(): create_dir_all, then drop(before_mount_guard), or
\* the `?` that returns and drops it.
FuseSetsUp ==
    /\ party["fuse"].pc = "setup"
    /\ party' = [party EXCEPT !["fuse"] = At("wake", "fuse_up", "done")]
    /\ cells' = [cells EXCEPT !["fuse_up"].dropped = TRUE]
    /\ OnlyStop

\* mount() returns and inject() runs drop(after_mount_guard).
HostDrops ==
    /\ party["host"].pc = "drop"
    /\ party' = [party EXCEPT !["host"] = At("wake", "after_mount", "done")]
    /\ cells' = [cells EXCEPT !["after_mount"].dropped = TRUE]
    /\ OnlyStop

\* Stop::wait: let mut inner = self.inner.lock().unwrap(), also when
\* Condvar::wait takes the Mutex again.
WaitLock(t) ==
    /\ party[t].pc \in {"wait", "relock"}
    /\ party[t].on \in SetupLocks
    /\ Waiter(party[t].on) = t
    /\ MutexFree(cells[party[t].on])
    /\ cells' = [cells EXCEPT ![party[t].on].mutex = t]
    /\ party' = [party EXCEPT ![t].pc = "check"]
    /\ OnlyStop

\* while !*inner: the loop ends and the MutexGuard is dropped, or the body
\* is entered.
WaitCheck(t) ==
    /\ party[t].pc = "check"
    /\ IF cells[party[t].on].inner
       THEN /\ cells' = [cells EXCEPT ![party[t].on].mutex = "free",
                                      ![party[t].on].waited = TRUE]
            /\ party' = [party EXCEPT ![t].pc = party[t].then]
       ELSE /\ party' = [party EXCEPT ![t].pc = "park"]
            /\ UNCHANGED cells
    /\ OnlyStop

\* self.condvar.wait(inner): the Mutex is released and the thread blocks,
\* in one step.
WaitPark(t) ==
    /\ party[t].pc = "park"
    /\ cells' = [cells EXCEPT ![party[t].on].mutex = "free"]
    /\ party' = [party EXCEPT ![t].pc = "parked"]
    /\ OnlyStop

\* Condvar::wait may return without a notification.
SpuriousWake(t) ==
    /\ party[t].pc = "parked"
    /\ party' = [party EXCEPT ![t].pc = "relock"]
    /\ UNCHANGED cells
    /\ OnlyStop

\* Stop::wake through StopGuard::drop: the Mutex is locked.
WakeLock(t) ==
    /\ party[t].pc = "wake"
    /\ MutexFree(cells[party[t].on])
    /\ cells' = [cells EXCEPT ![party[t].on].mutex = t]
    /\ party' = [party EXCEPT ![t].pc = "set"]
    /\ OnlyStop

\* *inner = true; self.condvar.notify_one(); the MutexGuard is dropped. The
\* notification takes a blocked waiter out of the Condvar.
WakeSet(t) ==
    LET l == party[t].on
        other == Waiter(l)
    IN  /\ party[t].pc = "set"
        /\ cells' = [cells EXCEPT ![l].inner = TRUE,
                                  ![l].mutex = IF @ = t THEN "free" ELSE @]
        /\ party' = [party EXCEPT
                        ![t].pc = party[t].then,
                        ![other].pc = IF @ = "parked" /\ party[other].on = l
                                      THEN "relock" ELSE @]
        /\ OnlyStop

\* replacer.run() after the wait, to the end of the closure.
SubRuns ==
    /\ party["sub"].pc = "run"
    /\ party' = [party EXCEPT !["sub"].pc = "done"]
    /\ UNCHANGED cells
    /\ OnlyStop

\* Every side is through; the next injection starts with new pairs of
\* stop::lock().
StopAgain ==
    /\ \A t \in Parties : party[t].pc \in {"done", "unborn"}
    /\ cells' = [l \in SetupLocks |-> NewCell]
    /\ party' = NewParties
    /\ OnlyStop

InitStop ==
    /\ cells = [l \in SetupLocks |-> NewCell]
    /\ party = NewParties

NextStop ==
    \/ \E ok \in BOOLEAN : SubPrepares(ok) \/ HostMounts(ok)
    \/ SubWaits
    \/ FuseSetsUp
    \/ HostDrops
    \/ SubRuns
    \/ StopAgain
    \/ \E t \in Parties :
          \/ WaitLock(t) \/ WaitCheck(t) \/ WaitPark(t) \/ SpuriousWake(t)
          \/ WakeLock(t) \/ WakeSet(t)

\* Requests through the pipeline while the control surface updates the list
\* and injection is switched on and off.
NextInj ==
    \/ \E o \in Ops :
          \/ \E method \in {"read", "write"} : Request(o, method)
          \/ LatencyElapsed(o) \/ LatencyCancelled(o) \/ HostIo(o) \/ ReplyStage(o)
    \/ \E conf \in Configs : Update(conf)
    \/ EnableInjection
    \/ DisableInjection

\* The supervisor's setup and teardown with requests in flight.
NextServe ==
    \/ NextLife
    \/ \E o \in Ops :
          \/ \E method \in {"read", "write"} : Request(o, method)
          \/ LatencyElapsed(o) \/ LatencyCancelled(o) \/ HostIo(o) \/ ReplyStage(o)

(***************************************************************************)
(* Specifications                                                          *)
(***************************************************************************)

\* Each specification starts from the state after construction and moves one
\* part of the program; the other parts keep their initial values.
Init ==
    /\ InitLife
    /\ InitPtrace
    /\ InitFs
    /\ InitInj
    /\ InitTracee
    /\ InitFd
    /\ InitRepl
    /\ InitSwap
    /\ InitRpc
    /\ InitDir
    /\ InitAttr
    /\ InitLock
    /\ InitReq
    /\ InitStop

SpecLife == Init /\ [][NextLife]_vars

SpecPtrace == Init /\ [][NextPtrace]_vars

SpecFs == Init /\ [][NextFs]_vars

SpecFh == Init /\ [][NextFh]_vars

SpecInj == Init /\ [][NextInj]_vars

SpecServe == Init /\ [][NextServe]_vars

SpecTracee == Init /\ [][NextTracee]_vars

SpecFd == Init /\ [][NextFd]_vars

SpecRepl == Init /\ [][NextRepl]_vars

SpecSwap == Init /\ [][NextSwap]_vars

SpecRpc == Init /\ [][NextRpc]_vars

SpecDir == Init /\ [][NextDir]_vars

SpecAttr == Init /\ [][NextAttr]_vars

SpecLock == Init /\ [][NextLock]_vars

SpecReq == Init /\ [][NextReq]_vars

SpecStop == Init /\ [][NextStop]_vars

\* toda keeps running: a step of its own that stays possible is taken.  The
\* processes of the target are under no such obligation.
SpecSwapLive == Init /\ [][NextSwap]_vars /\ WF_vars(SwapSteps)

(***************************************************************************)
(* Properties                                                              *)
(***************************************************************************)

\* C1: during setup the directory is moved aside, then the filesystem is
\* mounted at the original path, then the replacers run to completion, and
\* only then is injection enabled: the filesystem is mounted only with the
\* directory moved aside, a replacer run is in progress only with the
\* filesystem mounted, and injection is enabled only after the replacer
\* subprocess has ended.
C1_SetupOrder ==
    /\ fuseMounted => swap = "shadow"
    /\ pcRepl = "running" => fuseMounted
    /\ enable_injection => ReplExited

\* C2: teardown runs in the order injection disabled, replacers rewrite back,
\* filesystem unmounted, mount swap restored: the rewrite-back subprocess
\* exists only with injection disabled, recover_mount() is entered only once
\* the rewrite-back has returned or was abandoned, and the move back of the
\* directory is reached only with the filesystem unmounted.
C2_TeardownOrder ==
    /\ pcBack /= "idle" => ~enable_injection
    /\ pcMain \in {"umount", "join_fuse", "restore", "join_back", "done"}
          => pcBack \notin {"idle", "canonicalize", "prepare", "running"}
    /\ pcMain \in {"join_fuse", "restore", "join_back", "done"} => ~fuseMounted

\* A teardown that ran to its end: rewrite-back done, unmounted, restored.
C2_Witness ==
    /\ pcMain = "done"
    /\ pcBack = "exit_ok"
    /\ swap = "orig"
    /\ ~fuseMounted

\* C3: the kernel attach happens only on the first reference to a pid and the
\* kernel detach only on the last release; trace on a pid that is already
\* referred to attaches nothing and raises the count by one.
C3_AttachFirstDetachLast ==
    /\ ptEvent.attach /= {} => ptEvent.before.refs = 0
    /\ ptEvent.detach => ptEvent.before.refs = 1 /\ ptEvent.after.refs = 0
    /\ (ptEvent.call = "trace" /\ ptEvent.before.refs >= 1)
          => /\ ptEvent.attach = {}
             /\ ptEvent.after.count = ptEvent.before.count + 1
             /\ ptEvent.after.refs = ptEvent.before.refs + 1

\* trace on a pid that is already traced and attached.
C3_Witness ==
    /\ ptEvent.call = "trace"
    /\ ptEvent.before.refs >= 1
    /\ ptEvent.pid \in Pids
    /\ attached[ptEvent.pid] /= {}

\* C4: the ref_count of every node of the inode table equals the lookups
\* counted for the inode minus the lookups forgotten.
C4_RefCountIsOutstanding ==
    \A i \in DOMAIN inode_map : inode_map[i].ref_count = nlookup[i]

\* C5: forget(ino, n) lowers the count of ino by n and drops the entry exactly
\* when the count reaches zero; otherwise the entry stays with its count
\* lowered by n.
C5_ForgetDecrements ==
    [][\A ino \in Inos, n \in 0..MaxForget :
          (Forget(ino, n) /\ ino \in DOMAIN inode_map) =>
              IF inode_map[ino].ref_count <= n
              THEN ino \notin DOMAIN inode_map'
              ELSE /\ ino \in DOMAIN inode_map'
                   /\ inode_map'[ino].ref_count = inode_map[ino].ref_count - n]_vars

\* C6: a request that counts one more lookup of an inode already in the table
\* keeps every path of its node, in order, and adds at most one path; a path
\* it adds names that inode, and so does some path of the node afterwards.
C6_PathsKept ==
    [][\A i \in DOMAIN inode_map :
          (i \in DOMAIN inode_map' /\ inode_map'[i].ref_count > inode_map[i].ref_count) =>
              LET old == inode_map[i].paths
                  new == inode_map'[i].paths
              IN  /\ Len(new) \in {Len(old), Len(old) + 1}
                  /\ SubSeq(new, 1, Len(old)) = old
                  /\ \E p \in Range(new) : Len(p) = 1 /\ host'[p[1]] = i
                  /\ Len(new) = Len(old) + 1 =>
                        /\ Len(new[Len(new)]) = 1
                        /\ host'[new[Len(new)][1]] = i]_vars

\* An inode known under two paths after a second resolution.
C6_Witness ==
    \E i \in DOMAIN inode_map :
        /\ Len(inode_map[i].paths) >= 2
        /\ inode_map[i].ref_count >= 2

\* C7: unlink and rmdir take the path out of the entry of the inode and leave
\* its lookup count, and the set of entries, as they were.
C7_UnlinkKeepsCount ==
    [][\A parent \in Inos, name \in Names :
          (host' /= host /\ (Unlink(parent, name) \/ Rmdir(parent, name))) =>
              LET path == Join(GetPath(inode_map, parent), name)
                  ino == Lstat(path)
              IN  /\ DOMAIN inode_map' = DOMAIN inode_map
                  /\ \A i \in DOMAIN inode_map :
                        /\ inode_map'[i].ref_count = inode_map[i].ref_count
                        /\ i /= ino => inode_map'[i] = inode_map[i]
                  /\ ino \in DOMAIN inode_map =>
                        /\ path \notin Range(inode_map'[ino].paths)
                        /\ Range(inode_map'[ino].paths) = Range(inode_map[ino].paths) \ {path}]_vars

\* An entry that lost its only path to unlink or rmdir and is still counted.
C7_Witness ==
    \E i \in DOMAIN inode_map :
        /\ i /= RootIno
        /\ inode_map[i].paths = << >>
        /\ inode_map[i].ref_count >= 1

\* C8: in every reachable state the inode table maps inode 1 to the root of
\* the backing tree.
C8_RootMapped ==
    /\ RootIno \in DOMAIN inode_map
    /\ GetPath(inode_map, RootIno) = RootPath

\* C9: no integer is a live file handle and a live directory handle at once.
C9_NoCollision ==
    LiveKeys(opened_files) \cap LiveKeys(opened_dirs) = {}

\* C9, as the tables behave: a handle that stays live keeps its slot, so an
\* open, create or opendir never hands out an id that is live in the table of
\* its own kind, and the id it replies with is the slot it filled.
C9_FreshWithinKind ==
    [][/\ \A k \in LiveKeys(opened_files) \cap LiveKeys(opened_files') :
             SlabGet(opened_files', k) = SlabGet(opened_files, k)
       /\ \A k \in LiveKeys(opened_dirs) \cap LiveKeys(opened_dirs') :
             SlabGet(opened_dirs', k) = SlabGet(opened_dirs, k)
       /\ \A k \in LiveKeys(opened_files') \ LiveKeys(opened_files) :
             last' = Reply(last'.op, k, "Ok") /\ last'.op \in {"open", "create"}
       /\ \A k \in LiveKeys(opened_dirs') \ LiveKeys(opened_dirs) :
             last' = Reply("opendir", k, "Ok")]_vars

\* The same integer is a live file handle and a live directory handle.
C9_Witness ==
    \E k \in Fhs : Live(opened_files, k) /\ Live(opened_dirs, k)

\* C10: after release or releasedir of a handle, read, write and readdir on
\* that id fail with FhNotFound until an open, create or opendir hands the id
\* out again.
C10_ReleasedNotFound ==
    /\ (last.op \in {"read", "write"} /\ last.fh \in released.files)
          => last.res = "FhNotFound"
    /\ (last.op = "readdir" /\ last.fh \in released.dirs)
          => last.res = "FhNotFound"

\* Positions of list whose fault injector matches the request r.
FaultsOf(r, list) == {i \in r.draw \cap DOMAIN list : list[i].kind = "fault"}

\* The pre-op stage of r has run to its end.
PreOpDone(r) == r.at > 0 /\ r.pc \in {"host", "reply", "done"}

\* C11: the pipeline applies the injectors in configuration order, and when
\* several fault injectors match a request the error replied is the one of
\* the first of them in that order.
C11_FirstFaultReplies ==
    \A o \in Ops : \A list \in request[o].lists :
        LET r == request[o]
            faults == FaultsOf(r, list)
        IN (PreOpDone(r) /\ faults # {}) =>
              \E first \in faults :
                 /\ \A i \in faults : first <= i
                 /\ r.pc = "done"
                 /\ r.res = list[first].errno
                 /\ r.consulted = 1..first

\* Two fault injectors with different errnos matched one request.
C11_Witness ==
    \E o \in Ops : \E list \in request[o].lists :
        /\ PreOpDone(request[o])
        /\ \E i, j \in FaultsOf(request[o], list) : list[i].errno # list[j].errno

\* C12: every injector of the list is consulted for a request that enters
\* the pipeline, those declared after the first faulting injector included.
C12_AllConsulted ==
    \A o \in Ops : \A list \in request[o].lists :
        PreOpDone(request[o]) => request[o].consulted = DOMAIN list

\* C13: while enable_injection is off no injector acts on any request, in
\* the pre-op, reply or write-data stage, write included.
C13_BypassedWhenOff ==
    \A o \in Ops : \A a \in request[o].acts : a.on

\* Main has called disable_injection() in resume().
Resuming == pcMain \in {"wait_before_recover", "umount", "join_fuse", "restore", "join_back", "done"}

C15_OneListPerRequest ==
    \A o \in Ops : ~request[o].mixed

C17_RegionReclaimed ==
    (remote.phase = "done" /\ remote.addr) => ~remote.region

\* The step in which a trace() call of an untraced pid returns.
TraceReturns == tracing /= NoCall /\ tracing' = NoCall

\* C18: trace(pid) on a pid that is not traced fails when its first attach
\* fails, and the pid is then not recorded as traced.
C18_AttachFailedNotRecorded ==
    [][(TraceReturns /\ tracing.first = "failed") =>
          /\ tracing.pid \notin DOMAIN counter'
          /\ handles' = handles]_vars

\* C19: when trace(pid) returns a TracedProcess, every live task of pid that
\* was listed at the start of its last pass is attached.
C19_AllTasksAttached ==
    [][(TraceReturns /\ tracing.pid \in DOMAIN counter') =>
          (tasks[tracing.pid] \ tracing.gone) \subseteq attached'[tracing.pid]]_vars

\* C20: once the FdReplacer has handled a descriptor, the descriptor has the
\* number it had, refers to the file at the new path (or, when that could
\* not be opened, to the old file), and its offset is the one it had before;
\* no other number was opened or closed.
C20_FdAndOffsetKept ==
    accessor.pc \in {"running", "done"} =>
        /\ \A i \in 1..(accessor.next - 1) :
              LET case == accessor.cases[i]
                  old == accessor.before[case.fd]
                  now == fd_table[case.fd]
              IN /\ now # Closed
                 /\ now.pos = old.pos
                 /\ now.path \in {case.new_path, old.path}
        /\ {fd \in Fds : IsOpen(fd_table, fd)} = {fd \in Fds : IsOpen(accessor.before, fd)}

\* A descriptor at a non-zero offset was rewritten to the new path.
C20_Witness ==
    /\ accessor.pc = "done"
    /\ \E i \in DOMAIN accessor.cases :
          LET case == accessor.cases[i]
          IN /\ fd_table[case.fd].path = case.new_path
             /\ accessor.before[case.fd].pos > 0
             /\ fd_table[case.fd].pos = accessor.before[case.fd].pos

\* C21: when the open of the new path fails for a case, the injected code
\* stops there: no later case of the batch is handled, and the descriptor of
\* the failed case is left as it was.
C21_OpenFailureAborts ==
    accessor.pc \in {"running", "done"} =>
        \A i \in 1..(accessor.next - 1) :
            accessor.r12[i] = Failed =>
                /\ i = accessor.next - 1
                /\ fd_table[accessor.cases[i].fd] = accessor.before[accessor.cases[i].fd]

\* C22: when UnionReplacer::run returns, every process of every prepared
\* replacer has been run, whether or not an earlier rewrite failed, and the
\* result is Ok.
C22_FailureKeepsOthers ==
    replacers.pc = "returned" =>
        /\ replacers.prepared \subseteq replacers.tried
        /\ replacers.result = "Ok"

\* C23: a process whose cwd was below detect_path and that the CwdReplacer
\* has handled is in new_path joined with the part of its old cwd below
\* detect_path.
C23_CwdKeepsSubdirectory ==
    \A p \in Pids :
        <<"cwd", p>> \in replacers.done =>
            targets[p].cwd = <<NewPath, replacers.before[p].cwd[2]>>

\* C24: once mount() has passed its first step the directory has been moved
\* aside, with a mount move when detect_path lies on a listed mount point
\* and with a rename otherwise; and once recover_mount() has passed its last
\* step the directory is back, in the style it was moved aside with.
C24_MoveOrRename ==
    /\ mount_swap.pc \in {"aside", "serving"} =>
          /\ tree = "shadow"
          /\ mount_swap.aside \in {"move", "rename"}
    /\ mount_swap.pc = "recovered" =>
          /\ tree = "orig"
          /\ mount_swap.back = mount_swap.aside

\* C25: once recover_mount() has started, it returns, even when the mount
\* stays busy.
C25_TeardownTerminates ==
    (mount_swap.pc = "umount") ~> (mount_swap.pc \in {"recovered", "failed"})

\* C26: get_status answers 200 with the text ok and sends nothing when the
\* status is a success; when it is an error it answers 200 with the error
\* text and sends one shutdown token.
C26_GetStatus ==
    [][(response'.uri = "/get_status" /\ <<response, tx>>' # <<response, tx>>) =>
          /\ response'.code = 200
          /\ status = "Ok" => (response'.body = "ok" /\ tx' = tx)
          /\ status = "Err" => (response'.body = StatusText /\ tx' = tx + 1)]_vars

\* The error status has been asked for and a token is in the channel.
C26_Witness ==
    /\ status = "Err"
    /\ response = [uri |-> "/get_status", code |-> 200, body |-> StatusText]
    /\ tx > 0

\* C27: an /update whose body does not parse or whose list does not build is
\* answered 400 with the error text, and the installed list is unchanged.
C27_BadUpdateIs400 ==
    [][(response'.uri = "/update" /\ response'.body \in {"parse error", "build error"}
            /\ response' # response) =>
          /\ response'.code = 400
          /\ injector' = injector]_vars

\* C28: while the status is an error, update leaves the installed list as
\* it is and returns the status text, whatever configuration it is given.
C28_NoUpdateWhenFailed ==
    [][status = "Err" =>
          /\ injector' = injector
          /\ (response'.uri = "/update" /\ response' # response
                  /\ response'.body # "parse error") => response'.body = StatusText]_vars

\* update was called while the status is an error.
C28_Witness ==
    /\ status = "Err"
    /\ response = [uri |-> "/update", code |-> 200, body |-> StatusText]

\* C29: the entries the readdir calls on one handle have returned so far
\* are the first entries of the listing taken at the first call, in order:
\* none skipped and none twice, whatever was created or removed in between.
C29_ReaddirSnapshot ==
    dir_reader.calls > 0 =>
        /\ Len(dir_reader.got) <= Len(dir_reader.snapshot)
        /\ dir_reader.got = SubSeq(dir_reader.snapshot, 1, Len(dir_reader.got))

\* The host inode is held by an open file handle and has no name left.
OpenUnlinked(ino) ==
    /\ ino \in {SlabGet(opened_files, k).fd : k \in LiveKeys(opened_files)}
    /\ Nlink(ino) = 0

\* C30: for a file that is open and has been unlinked, getattr succeeds and
\* reports no link, and a read through its handle is served.
C30_UnlinkedOpenFile ==
    [][/\ \A ino \in HostInos :
              (OpenUnlinked(ino) /\ attr_reply' # attr_reply /\ attr_reply'.ino = ino
                   /\ attr_reply'.res # "InjectedFault") =>
                  (attr_reply'.res = "Ok" /\ attr_reply'.nlink = 0)
       /\ \A fh \in LiveKeys(opened_files) :
              (OpenUnlinked(SlabGet(opened_files, fh).fd) /\ last' # last
                   /\ last'.op = "read" /\ last'.fh = fh) =>
                  last'.res \in {"Ok", "InjectedFault"}]_vars

\* C31: no task holds the write lock of inode_map while it acquires a lock
\* of a handle table.
C31_NoInodeWriteAcrossHandleLock ==
    \A w \in Workers :
        (Running(w) /\ StepOf(w).k = "acq" /\ StepOf(w).l = "opened_files") =>
            rwlock["inode_map"].writer /= w

\* A task is able to take its next step.
CanStep(w) ==
    \/ AtEnd(w)
    \/ Running(w) /\ (worker[w].waiting => CanTake(StepOf(w).l, w))

\* The place of a lock in the order inode_map, opened_files, injector.
Rank(lock) ==
    CASE lock = "inode_map" -> 1
      [] lock = "opened_files" -> 2
      [] lock = "injector" -> 3

\* C32: a task that acquires a lock holds no lock of the same or a later
\* rank (inode_map, then opened_files, then injector), and the tasks never
\* block one another for ever.
C32_LockOrder ==
    /\ \A w \in Workers :
           (Running(w) /\ StepOf(w).k = "acq" /\ ~Skipped(w)) =>
               \A lock \in Held(w) : Rank(lock) < Rank(StepOf(w).l)
    /\ (\E w \in Workers : worker[w].kind /= "idle") =>
           \E w \in Workers : CanStep(w)

\* A writer waits for the injector behind a task that holds opened_files
\* and the injector at once.
C32_Witness ==
    \E w \in Workers, u \in Workers :
        /\ Held(w) = {"opened_files", "injector"}
        /\ worker[u].kind = "update"
        /\ worker[u].waiting

\* The task is inside the host call of a read or write on its handle.
InHostIo(w) ==
    /\ Running(w)
    /\ StepOf(w).k = "io"
    /\ StepOf(w).m \in {"read", "write"}

\* C33: two reads or writes on the same file handle are never inside their
\* host call at the same time.
C33_SameHandleSerialized ==
    \A w \in Workers, u \in Workers :
        (w /= u /\ InHostIo(w) /\ InHostIo(u)) => worker[w].fh /= worker[u].fh

\* C34: a request whose task has finished has been sent exactly one reply,
\* and no request is ever sent two.
C34_RepliedOnce ==
    \A q \in ReqIds :
        /\ Len(fuse_req[q].sent) <= 1
        /\ fuse_req[q].task = "finished" => Len(fuse_req[q].sent) = 1

\* One request finished after its handler returned an error, another after
\* its handler returned a value.
C34_Witness ==
    \E q \in ReqIds, r \in ReqIds :
        /\ fuse_req[q].task = "finished" /\ fuse_req[q].sent = <<"error">>
        /\ fuse_req[r].task = "finished" /\ fuse_req[r].sent = <<"ok">>

\* The paths an entry of the inode table lists.
PathsOf(ino) == {inode_map[ino].paths[i] : i \in DOMAIN inode_map[ino].paths}

\* C35: no path is listed by two entries of the inode table; after a rename
\* the renamed inode lists the new path and not the old one, and no other
\* inode lists either.
C35_PathOfOneInode ==
    \A ino \in DOMAIN inode_map, other \in DOMAIN inode_map :
        ino /= other => PathsOf(ino) \cap PathsOf(other) = {}

\* C36: an operation that is issued while injection is enabled and meets a
\* latency injector sleeps on a token that is not cancelled, whatever
\* disable_injection did before it was issued.
C36_LatencyAfterReenable ==
    [][\A o \in Ops :
          (request[o].pc \in {"idle", "done"} /\ request'[o].pc = "sleep") =>
              request'[o].at \notin cancel_token']_vars

\* C37: a release of a live file handle, whatever it replies, leaves the
\* handle's slot of opened_files vacant.
C37_ReleaseFreesSlot ==
    [][\A fh \in Fhs :
          (Live(opened_files, fh) /\ last' /= last /\ last'.op = "release" /\ last'.fh = fh) =>
              ~Live(opened_files', fh)]_vars

\* C38: a wait returns only once the paired guard has been dropped, and a
\* wake is never lost: no side blocks, or is about to block, on a Stop whose
\* guard has already woken it.
C38_HandshakeNotLost ==
    /\ \A l \in SetupLocks : cells[l].waited => cells[l].dropped
    /\ \A t \in Parties :
           party[t].pc \in {"park", "parked"} => ~cells[party[t].on].inner

\* The host is through its wait for before_mount and has not yet started to
\* wait for the guard of the FUSE subprocess, which is already dropped,
\* while the replacer subprocess is blocked in its Condvar.
C38_Witness ==
    /\ cells["before_mount"].waited
    /\ party["host"] = At("wait", "fuse_up", "drop")
    /\ cells["fuse_up"].inner
    /\ party["sub"].pc = "parked"

\* C39: every count of the registry is at least 1, a pid has an entry
\* exactly while a TracedProcess of it is alive, and a detach of a pid
\* without an entry is an error that changes no entry and detaches no task.
C39_RegistryCounts ==
    /\ [](\A pid \in Pids :
              /\ pid \in DOMAIN counter => counter[pid] >= 1
              /\ pid \in DOMAIN counter <=> handles[pid] >= 1)
    /\ [][(ptEvent' /= ptEvent /\ ptEvent'.call = "detach_error") =>
              (counter' = counter /\ attached' = attached /\ ~ptEvent'.detach)]_vars

\* A detach of a pid that is not traced has returned its error while the
\* other pid is held by two references.
C39_Witness ==
    /\ ptEvent.call = "detach_error"
    /\ \E pid \in Pids : pid \in DOMAIN counter /\ counter[pid] = 2 /\ attached[pid] /= {}

====
